---- MODULE Spec2Model ----
(***************************************************************************)
(* Method resolution of ra_hir (crates/ra_hir/src/ty/method_resolution.rs):*)
(* the per-crate impl index (CrateImplBlocks) and the autoderef-driven     *)
(* candidate search (Ty::iterate_method_candidates and friends).           *)
(***************************************************************************)
EXTENDS Integers, Sequences, FiniteSets, TLC

(***************************************************************************)
(* Bounds of the model.                                                    *)
(***************************************************************************)
\* how many reference layers a receiver type may carry (&S, &&S, ...)
MaxRefDepth == 2

(***************************************************************************)
(* Option<T>                                                               *)
(***************************************************************************)
None == [some |-> FALSE, val |-> <<>>]
Some(v) == [some |-> TRUE, val |-> v]

(***************************************************************************)
(* Types: Ty::Apply(ApplicationTy { ctor, parameters }), Ty::Infer(..),    *)
(* Ty::Unknown.  TypeCtor::Adt(def), TypeCtor::Ref, TypeCtor::Bool.        *)
(***************************************************************************)
NoCtor == [tag |-> "", def |-> ""]
Adt(d) == [tag |-> "Adt", def |-> d]
CtorRef == [tag |-> "Ref", def |-> ""]
CtorBool == [tag |-> "Bool", def |-> ""]

Apply(c, a) == [kind |-> "Apply", ctor |-> c, args |-> a, var |-> 0]
Infer(n) == [kind |-> "Infer", ctor |-> NoCtor, args |-> <<>>, var |-> n]
Unknown == [kind |-> "Unknown", ctor |-> NoCtor, args |-> <<>>, var |-> 0]

TyBool == Apply(CtorBool, <<>>)
TyS == Apply(Adt("S"), <<>>)
TyGBool == Apply(Adt("G"), <<TyBool>>)
TyGS == Apply(Adt("G"), <<TyS>>)
TyP == Apply(Adt("P"), <<>>)
TyQ == Apply(Adt("Q"), <<>>)
TyX == Apply(Adt("X"), <<>>)
RefTo(t) == Apply(CtorRef, <<t>>)

RECURSIVE Refs(_, _)
Refs(t, n) == IF n = 0 THEN t ELSE RefTo(Refs(t, n - 1))

(***************************************************************************)
(* The crates.  Crate 1 owns S and G, crate 2 owns P, crate 3 owns Q and   *)
(* has no root module; the ADT X resolves to no crate.                     *)
(***************************************************************************)
Crates == {1, 2, 3}

\* AdtDef::krate(db)
AdtKrate(d) ==
    CASE d \in {"S", "G"} -> Some(1)
      [] d = "P" -> Some(2)
      [] d = "Q" -> Some(3)
      [] OTHER -> None

\* Crate::root_module(db)
root_module(krate) == IF krate \in {1, 2} THEN Some(0) ELSE None

\* Module::children(db), per crate, in declaration order
children(krate, m) ==
    IF krate = 1 /\ m = 0 THEN <<1, 2>>
    ELSE IF krate = 1 /\ m = 1 THEN <<3>>
    ELSE <<>>

(***************************************************************************)
(* Functions and their signatures (Function::signature(db)).               *)
(***************************************************************************)
Sig(f) ==
    CASE f = "S::new"      -> [name |-> "bar", has_self_param |-> FALSE]
      [] f = "S::foo"      -> [name |-> "foo", has_self_param |-> TRUE]
      [] f = "S::go"       -> [name |-> "go",  has_self_param |-> TRUE]
      [] f = "S::foo2"     -> [name |-> "foo", has_self_param |-> TRUE]
      [] f = "GBool::bar"  -> [name |-> "bar", has_self_param |-> TRUE]
      [] f = "GS::foo"     -> [name |-> "foo", has_self_param |-> TRUE]
      [] f = "Tr1S::go"    -> [name |-> "go",  has_self_param |-> TRUE]
      [] f = "Tr2RefS::foo" -> [name |-> "foo", has_self_param |-> TRUE]
      [] f = "Blanket::foo" -> [name |-> "foo", has_self_param |-> TRUE]
      [] f = "Tr1U::go"    -> [name |-> "go",  has_self_param |-> TRUE]
      [] f = "RefS::bar"   -> [name |-> "bar", has_self_param |-> TRUE]
      [] f = "Bool::foo"   -> [name |-> "foo", has_self_param |-> TRUE]
      [] f = "P::foo"      -> [name |-> "foo", has_self_param |-> TRUE]
      [] f = "P::go"       -> [name |-> "go",  has_self_param |-> TRUE]
      [] f = "Ext::bar"    -> [name |-> "bar", has_self_param |-> TRUE]
      [] f = "Tr1::go"     -> [name |-> "go",  has_self_param |-> TRUE]
      [] f = "Tr1::foo"    -> [name |-> "foo", has_self_param |-> TRUE]
      [] f = "Tr2::make"   -> [name |-> "foo", has_self_param |-> FALSE]
      [] f = "Tr2::foo"    -> [name |-> "foo", has_self_param |-> TRUE]
      [] f = "Tr2::bar"    -> [name |-> "bar", has_self_param |-> TRUE]
      [] OTHER             -> [name |-> "",    has_self_param |-> FALSE]

Names == {"foo", "bar", "go"}

\* ImplItem::Method(f) / TraitItem::Function(f), and the other item kinds
Method(f) == [kind |-> "Method", id |-> f]
Other(k, n) == [kind |-> k, id |-> n]

(***************************************************************************)
(* Traits: Trait::trait_data(db).items() and the generic parameters        *)
(* (params_including_parent, Self first).                                  *)
(***************************************************************************)
Traits == {"Tr1", "Tr2"}

TraitItems(t) ==
    CASE t = "Tr1" -> <<Method("Tr1::go"), Other("Const", "Tr1::K"), Method("Tr1::foo")>>
      [] t = "Tr2" -> <<Other("Type", "Tr2::Out"), Method("Tr2::make"),
                        Method("Tr2::foo"), Method("Tr2::bar")>>
      [] OTHER -> <<>>

params_including_parent(t) ==
    CASE t = "Tr1" -> <<"Self">>
      [] t = "Tr2" -> <<"Self", "A", "B">>
      [] OTHER -> <<"Self">>

(***************************************************************************)
(* Impl blocks: target type, optional target trait, member items.          *)
(***************************************************************************)
Impl(ty, tr, its) == [target_ty |-> ty, target_trait |-> tr, items |-> its]

ImplS1 == Impl(TyS, None,
               <<Method("S::new"), Other("Const", "S::C"), Method("S::foo")>>)
ImplS2 == Impl(TyS, None, <<Method("S::go"), Method("S::foo2")>>)
ImplGBool == Impl(TyGBool, None, <<Method("GBool::bar")>>)
ImplGS == Impl(TyGS, None, <<Method("GS::foo")>>)
ImplTr1S == Impl(TyS, Some("Tr1"), <<Method("Tr1S::go")>>)
ImplTr2RefS == Impl(RefTo(TyS), Some("Tr2"), <<Method("Tr2RefS::foo")>>)
ImplBlanket == Impl(Unknown, None, <<Method("Blanket::foo")>>)
ImplTr1U == Impl(Infer(0), Some("Tr1"), <<Method("Tr1U::go")>>)
ImplRefS == Impl(RefTo(TyS), None, <<Method("RefS::bar")>>)
ImplBool == Impl(TyBool, None, <<Method("Bool::foo")>>)
ImplP == Impl(TyP, None, <<Method("P::foo"), Other("Type", "P::T"), Method("P::go")>>)
ImplExt == Impl(TyS, None, <<Method("Ext::bar")>>)

\* the variants of the crates' source: what the root module of crate 1 and
\* its first child declare
Units == {"plain", "mixed"}

(***************************************************************************)
(* State.                                                                  *)
(***************************************************************************)
VARIABLES
    unit,        \* the source of the crates, one of Units
    impl_facts,  \* the pairs <<self type, trait>> for which db.implements holds
    db_impls,    \* db.impls_in_crate: crate -> its published CrateImplBlocks
    building,    \* crate_impl_blocks, the index under construction
    stack,       \* the collect_recursive calls in progress
    pc,          \* where the running query or search stands
    api,         \* the entry point called
    self_ty,     \* the receiver of the search
    name,        \* the name filter, Option<Name>
    scope,       \* resolver.traits_in_scope(), in the order it yields them
    di,          \* the position in self.autoderef(db)
    blocks,      \* the impl blocks still to visit in iterate_inherent_methods
    ti,          \* the position in the traits in scope
    ii,          \* the position in the items of the current block or trait
    known_implemented,
    trace,       \* the oracle queries and callback invocations of the search
    result,      \* what the search returned
    probe_ref,   \* the TraitRef the last probe built, before canonicalization
    stale,       \* the indexes the database has invalidated, by crate
    it_pc,       \* where a call of iterate_impl_items stands
    it_self,     \* its receiver
    it_blocks,   \* the impl blocks it has still to visit
    it_ii,       \* its position in the items of the current block
    it_trace,    \* its callback invocations
    it_result,   \* what it returned
    p_tokens,    \* the parser's input: the kinds of the tokens
    p_pos,       \* the parser's position in the input
    p_frames,    \* the calls of expr_bp, lhs and bin_expr under way
    p_out,       \* what the call that returned last has built
    impl_node,   \* the children of an IMPL_BLOCK syntax node
    asked_type,  \* whether target_type has been called on it
    asked_trait, \* whether target_trait has been called on it
    got_type,    \* what target_type returned
    got_trait    \* what target_trait returned

vars == <<unit, impl_facts, db_impls, building, stack, pc, api, self_ty, name,
          scope, di, blocks, ti, ii, known_implemented, trace, result,
          probe_ref, stale, it_pc, it_self, it_blocks, it_ii, it_trace,
          it_result, p_tokens, p_pos, p_frames, p_out, impl_node,
          asked_type, asked_trait, got_type, got_trait>>

world == <<unit, impl_facts>>
index_vars == <<db_impls, building, stack, stale>>
search_vars == <<api, self_ty, name, scope, di, blocks, ti, ii,
                 known_implemented, trace, result, probe_ref>>
items_vars == <<it_pc, it_self, it_blocks, it_ii, it_trace, it_result>>
parser_vars == <<p_tokens, p_pos, p_frames, p_out>>
ast_vars == <<impl_node, asked_type, asked_trait, got_type, got_trait>>
syntax_vars == <<parser_vars, ast_vars>>

\* db.impls_in_module(module).impls, in declaration order (the arena order
\* that gives each block its ImplId)
impls_in_module(k, m) ==
    CASE k = 1 /\ m = 0 -> IF unit = "plain"
                           THEN <<ImplS1, ImplTr1S>>
                           ELSE <<ImplTr1S, ImplBlanket, ImplS1>>
      [] k = 1 /\ m = 1 -> IF unit = "plain"
                           THEN <<ImplGBool>>
                           ELSE <<ImplGS, ImplTr1U, ImplGBool>>
      [] k = 1 /\ m = 2 -> <<ImplS2, ImplGS, ImplBool>>
      [] k = 1 /\ m = 3 -> <<ImplRefS, ImplTr2RefS, ImplBool>>
      [] k = 2 /\ m = 0 -> <<ImplP, ImplExt>>
      [] OTHER -> <<>>

(***************************************************************************)
(* TyFingerprint and CrateImplBlocks.                                      *)
(***************************************************************************)
Fingerprint(c) == [fp |-> "Apply", ctor |-> c]

\* the fingerprint keeps the arguments of the type
for_impl_with_args(ty) ==
    IF ty.kind = "Apply" THEN Some(Fingerprint(ty)) ELSE None

for_impl(ty) ==
    IF ty.kind = "Apply" THEN Some(Fingerprint(ty.ctor)) ELSE None

\* FxHashMap::get
MapGet(map, k) == IF k \in DOMAIN map THEN Some(map[k]) ELSE None

\* the new element goes to the front of the Vec
MapPushFront(map, k, v) ==
    IF k \in DOMAIN map
    THEN [map EXCEPT ![k] = <<v>> \o @]
    ELSE [x \in DOMAIN map \cup {k} |-> IF x = k THEN <<v>> ELSE map[x]]

\* map.entry(k).or_insert_with(Vec::new).push(v)
MapPush(map, k, v) ==
    IF k \in DOMAIN map
    THEN [map EXCEPT ![k] = Append(@, v)]
    ELSE [x \in DOMAIN map \cup {k} |-> IF x = k THEN <<v>> ELSE map[x]]

\* ImplBlock::from_id(Module { krate, module_id }, impl_id)
from_id(krate, module_id, impl_id) ==
    [krate |-> krate, module_id |-> module_id, impl_id |-> impl_id]

ImplData(b) == impls_in_module(b.krate, b.module_id)[b.impl_id]
target_ty(b) == ImplData(b).target_ty
target_trait_ref(b) == ImplData(b).target_trait
items(b) == ImplData(b).items

\* the Vec of a key is read from its back
BlocksOfReversed(cib, entry) ==
    IF entry.some
    THEN [i \in 1..Len(entry.val) |->
            from_id(cib.krate, entry.val[Len(entry.val) + 1 - i][1],
                    entry.val[Len(entry.val) + 1 - i][2])]
    ELSE <<>>

\* the Vec<(CrateModuleId, ImplId)> of a key, as impl blocks of self.krate
BlocksOf(cib, entry) ==
    IF entry.some
    THEN [i \in 1..Len(entry.val) |->
            from_id(cib.krate, entry.val[i][1], entry.val[i][2])]
    ELSE <<>>

\* only the first block of the entry is yielded
lookup_impl_blocks_first(cib, ty) ==
    LET fingerprint == for_impl(ty)
        all == BlocksOf(cib, IF fingerprint.some
                             THEN MapGet(cib.impls, fingerprint.val)
                             ELSE None)
    IN IF all = <<>> THEN <<>> ELSE <<Head(all)>>

lookup_impl_blocks(cib, ty) ==
    LET fingerprint == for_impl(ty)
    IN BlocksOf(cib, IF fingerprint.some
                     THEN MapGet(cib.impls, fingerprint.val)
                     ELSE None)

lookup_impl_blocks_for_trait(cib, tr) ==
    BlocksOf(cib, MapGet(cib.impls_by_trait, tr))

\* the fingerprint map is filled for trait impls too
CollectImplBlockBoth(cib, module_id, impl_id) ==
    LET impl_block == from_id(cib.krate, module_id, impl_id)
        tr == target_trait_ref(impl_block)
        target_ty_fp == for_impl(target_ty(impl_block))
        with_trait == IF tr.some
                      THEN [cib EXCEPT !.impls_by_trait =
                              MapPush(@, tr.val, <<module_id, impl_id>>)]
                      ELSE cib
    IN IF target_ty_fp.some
       THEN [with_trait EXCEPT !.impls =
                MapPush(@, target_ty_fp.val, <<module_id, impl_id>>)]
       ELSE with_trait

\* the body of the loop over a module's impl blocks in collect_recursive
CollectImplBlock(cib, module_id, impl_id) ==
    LET impl_block == from_id(cib.krate, module_id, impl_id)
        tr == target_trait_ref(impl_block)
        target_ty_fp == for_impl(target_ty(impl_block))
    IN IF tr.some
       THEN [cib EXCEPT !.impls_by_trait =
                MapPush(@, tr.val, <<module_id, impl_id>>)]
       ELSE IF target_ty_fp.some
       THEN [cib EXCEPT !.impls =
                MapPush(@, target_ty_fp.val, <<module_id, impl_id>>)]
       ELSE cib

EmptyIndex(krate) == [krate |-> krate, impls |-> <<>>, impls_by_trait |-> <<>>]

Top == stack[Len(stack)]
Pop == SubSeq(stack, 1, Len(stack) - 1)
Frame(m) == [module |-> m, i |-> 1, c |-> 1]

\* CrateImplBlocks::impls_in_crate_query, up to the call of collect_recursive
ImplsInCrateQuery(krate) ==
    /\ pc = "idle"
    /\ krate \notin DOMAIN db_impls
    /\ building' = EmptyIndex(krate)
    /\ stack' = IF root_module(krate).some
                THEN <<Frame(root_module(krate).val)>>
                ELSE <<>>
    /\ pc' = "collect"
    /\ UNCHANGED <<world, syntax_vars, db_impls, stale, search_vars,
                   items_vars>>

\* collect_recursive: one impl block of the module
CollectImpl ==
    /\ pc = "collect"
    /\ stack # <<>>
    /\ Top.i <= Len(impls_in_module(building.krate, Top.module))
    /\ building' = CollectImplBlock(building, Top.module, Top.i)
    /\ stack' = [stack EXCEPT ![Len(stack)].i = @ + 1]
    /\ UNCHANGED <<world, syntax_vars, db_impls, pc, stale, search_vars,
                   items_vars>>

\* collect_recursive: the recursive call for the next child module
CollectChild ==
    /\ pc = "collect"
    /\ stack # <<>>
    /\ Top.i > Len(impls_in_module(building.krate, Top.module))
    /\ Top.c <= Len(children(building.krate, Top.module))
    /\ stack' = Append([stack EXCEPT ![Len(stack)].c = @ + 1],
                       Frame(children(building.krate, Top.module)[Top.c]))
    /\ UNCHANGED <<world, syntax_vars, db_impls, building, pc, stale,
                   search_vars, items_vars>>

\* collect_recursive returns: the module's blocks and children are done
CollectReturn ==
    /\ pc = "collect"
    /\ stack # <<>>
    /\ Top.i > Len(impls_in_module(building.krate, Top.module))
    /\ Top.c > Len(children(building.krate, Top.module))
    /\ stack' = Pop
    /\ UNCHANGED <<world, syntax_vars, db_impls, building, pc, stale,
                   search_vars, items_vars>>

\* impls_in_crate_query returns Arc::new(crate_impl_blocks)
Publish ==
    /\ pc = "collect"
    /\ stack = <<>>
    /\ db_impls' = [k \in DOMAIN db_impls \cup {building.krate} |->
                      IF k = building.krate THEN building ELSE db_impls[k]]
    /\ pc' = "idle"
    /\ UNCHANGED <<world, syntax_vars, building, stack, stale, search_vars,
                   items_vars>>

(***************************************************************************)
(* The collaborators of the search.                                        *)
(***************************************************************************)
\* Ty::autoderef: the type itself, then what each reference layer points to
RECURSIVE autoderef(_)
autoderef(ty) ==
    IF ty.kind = "Apply" /\ ty.ctor = CtorRef
    THEN <<ty>> \o autoderef(ty.args[1])
    ELSE <<ty>>

Bound(n) == [kind |-> "Bound", ctor |-> NoCtor, args |-> <<>>, var |-> n]

\* the inference variables of a substitution, in order of first occurrence
RECURSIVE FirstVars(_, _)
FirstVars(substs, seen) ==
    IF substs = <<>> THEN seen
    ELSE LET h == Head(substs)
         IN FirstVars(Tail(substs),
                      IF h.kind = "Infer" /\ \A k \in 1..Len(seen) : seen[k] # h.var
                      THEN Append(seen, h.var) ELSE seen)

\* traits::canonicalize: each inference variable becomes the bound variable
\* numbered by its first occurrence
canonicalize(trait_ref) ==
    LET vs == FirstVars(trait_ref.substs, <<>>)
        Canon(ty) == IF ty.kind = "Infer"
                     THEN Bound((CHOOSE k \in 1..Len(vs) : vs[k] = ty.var) - 1)
                     ELSE ty
    IN [trait_ |-> trait_ref.trait_,
        substs |-> [k \in 1..Len(trait_ref.substs) |-> Canon(trait_ref.substs[k])]]

\* db.implements(canonical trait ref).is_some()
implements(canonical) == <<canonical.substs[1], canonical.trait_>> \in impl_facts

(***************************************************************************)
(* The search: Ty::lookup_method, Ty::iterate_method_candidates.           *)
(***************************************************************************)
\* a type that is no ADT is looked up in crate 1
def_crate_builtin(ty) ==
    IF ty.kind = "Apply"
    THEN IF ty.ctor.tag = "Adt" THEN AdtKrate(ty.ctor.def) ELSE Some(1)
    ELSE None

def_crate(ty) ==
    IF ty.kind = "Apply"
    THEN IF ty.ctor.tag = "Adt" THEN AdtKrate(ty.ctor.def) ELSE None
    ELSE None

\* every placeholder is TypeVarId(0)
fresh_substs_one_var(tr, ty) ==
    <<ty>> \o [i \in 1..(Len(params_including_parent(tr)) - 1) |-> Infer(0)]

fresh_substs_for_trait(tr, ty) ==
    <<ty>> \o [i \in 1..(Len(params_including_parent(tr)) - 1) |-> Infer(i - 1)]

\* the name filter is not applied
MatchesAnyName(nm, f) == Sig(f).has_self_param

\* the receiver is not asked for
MatchesNoReceiver(nm, f) == nm.some => Sig(f).name = nm.val

\* name.map_or(true, |name| sig.name() == name) && sig.has_self_param()
Matches(nm, f) ==
    /\ (nm.some => Sig(f).name = nm.val)
    /\ Sig(f).has_self_param

\* the oracle's answer is not looked at
ProbeIgnored(ty, t) == TRUE

\* TraitRef { trait_: t, substs: fresh_substs_for_trait(db, t, self.clone()) }
ProbeRef(ty, t) == [trait_ |-> t, substs |-> fresh_substs_for_trait(t, ty)]

\* the probe of iterate_trait_method_candidates for the trait t
Probe(ty, t) == implements(canonicalize(ProbeRef(ty, t)))

EvDeref(ty) == [ev |-> "deref", ty |-> ty, f |-> "", trait |-> "", ok |-> TRUE]
EvProbe(ty, t, ok) == [ev |-> "probe", ty |-> ty, f |-> "", trait |-> t, ok |-> ok]
EvCall(ty, f, ok) == [ev |-> "call", ty |-> ty, f |-> f, trait |-> "", ok |-> ok]

\* what the callback returns: lookup_method's closure always Some((ty, f)),
\* a caller's closure of iterate_method_candidates whatever it decides
CallbackAnswers == IF api = "lookup_method" THEN {TRUE} ELSE BOOLEAN
\* the receiver of the call is returned, not the derefed type
FoundAtReceiver(ty, f) == Some([ty |-> self_ty, f |-> f])

Found(ty, f) == Some([ty |-> ty, f |-> f])

Chain == autoderef(self_ty)
derefed_ty == Chain[di]

Receivers ==
    {Refs(TyS, n) : n \in 0..MaxRefDepth} \cup
    {TyGBool, TyGS, TyBool, TyP, TyQ, TyX, Infer(0)}

RECURSIVE SeqsUpTo(_, _)
SeqsUpTo(S, n) ==
    IF n = 0 THEN {<<>>}
    ELSE LET shorter == SeqsUpTo(S, n - 1)
         IN shorter \cup {Append(q, x) : q \in shorter, x \in S}

IsInjective(q) == \A a, b \in 1..Len(q) : q[a] = q[b] => a = b

\* the resolver reports a set of traits, each once, in some order
Scopes == {q \in SeqsUpTo(Traits, Cardinality(Traits)) : IsInjective(q)}

\* Ty::lookup_method / Ty::iterate_method_candidates is called
BeginSearch(entry, ty, nm, sc) ==
    /\ pc = "idle"
    /\ DOMAIN db_impls = Crates
    /\ entry = "lookup_method" => nm.some
    /\ api' = entry
    /\ self_ty' = ty
    /\ name' = nm
    /\ scope' = sc
    /\ di' = 1
    /\ pc' = "deref"
    /\ UNCHANGED <<world, syntax_vars, index_vars, items_vars, probe_ref,
                   blocks, ti, ii, known_implemented, trace, result>>

\* for derefed_ty in self.autoderef(db) { .. } None: the next type, and the
\* start of its iterate_inherent_methods (def_crate, db.impls_in_crate,
\* lookup_impl_blocks), or None once the sequence is exhausted
AutoderefNext ==
    /\ pc = "deref"
    /\ IF di <= Len(Chain)
       THEN /\ trace' = Append(trace, EvDeref(derefed_ty))
            /\ LET krate == def_crate(derefed_ty)
               IN IF krate.some
                  THEN blocks' = lookup_impl_blocks(db_impls[krate.val], derefed_ty)
                  ELSE blocks' = <<>>
            /\ pc' = "inherent"
            /\ UNCHANGED result
       ELSE /\ result' = None
            /\ pc' = "done"
            /\ UNCHANGED <<trace, blocks>>
    /\ ii' = 1
    /\ ti' = 1
    /\ known_implemented' = FALSE
    /\ UNCHANGED <<world, syntax_vars, index_vars, items_vars, probe_ref,
                   api, self_ty, name, scope, di>>

\* an accepted candidate does not end the search
InherentItemNoReturn ==
    /\ pc = "inherent"
    /\ blocks # <<>>
    /\ ii <= Len(items(Head(blocks)))
    /\ LET item == items(Head(blocks))[ii]
       IN IF item.kind = "Method" /\ Matches(name, item.id)
          THEN \E acc \in CallbackAnswers :
                 /\ trace' = Append(trace, EvCall(derefed_ty, item.id, acc))
                 /\ result' = IF acc THEN Found(derefed_ty, item.id) ELSE result
                 /\ ii' = ii + 1
                 /\ UNCHANGED pc
          ELSE /\ ii' = ii + 1
               /\ UNCHANGED <<trace, result, pc>>
    /\ UNCHANGED <<world, syntax_vars, index_vars, items_vars, probe_ref,
                   api, self_ty, name, scope, di, blocks, ti,
                   known_implemented>>

\* iterate_inherent_methods: one member item of the current impl block
InherentItem ==
    /\ pc = "inherent"
    /\ blocks # <<>>
    /\ ii <= Len(items(Head(blocks)))
    /\ LET item == items(Head(blocks))[ii]
       IN IF item.kind = "Method" /\ Matches(name, item.id)
          THEN \E acc \in CallbackAnswers :
                 /\ trace' = Append(trace, EvCall(derefed_ty, item.id, acc))
                 /\ IF acc
                    THEN /\ result' = Found(derefed_ty, item.id)
                         /\ pc' = "done"
                         /\ ii' = ii
                    ELSE /\ ii' = ii + 1
                         /\ UNCHANGED <<result, pc>>
          ELSE /\ ii' = ii + 1
               /\ UNCHANGED <<trace, result, pc>>
    /\ UNCHANGED <<world, syntax_vars, index_vars, items_vars, probe_ref,
                   api, self_ty, name, scope, di, blocks, ti,
                   known_implemented>>

\* the trait candidates of the step are not looked up
InherentAdvanceSkipsTraits ==
    /\ pc = "inherent"
    /\ IF blocks = <<>>
       THEN /\ pc' = "deref"
            /\ di' = di + 1
            /\ UNCHANGED blocks
       ELSE /\ ii > Len(items(Head(blocks)))
            /\ blocks' = Tail(blocks)
            /\ UNCHANGED <<pc, di>>
    /\ ii' = 1
    /\ UNCHANGED <<world, syntax_vars, index_vars, items_vars, probe_ref,
                   api, self_ty, name, scope, ti, known_implemented, trace,
                   result>>

\* iterate_inherent_methods: the next impl block, or None after the last
InherentAdvance ==
    /\ pc = "inherent"
    /\ IF blocks = <<>>
       THEN /\ pc' = "traits"
            /\ UNCHANGED blocks
       ELSE /\ ii > Len(items(Head(blocks)))
            /\ blocks' = Tail(blocks)
            /\ UNCHANGED pc
    /\ ii' = 1
    /\ UNCHANGED <<world, syntax_vars, index_vars, items_vars, probe_ref,
                   api, self_ty, name, scope, di, ti, known_implemented,
                   trace, result>>

\* every trait is taken to be in scope
all_traits == <<"Tr1", "Tr2">>

\* resolver.traits_in_scope()
traits_in_scope == scope

\* the flag is not consulted
NeedsProbeAlways(known) == TRUE

\* if !known_implemented { .. }
NeedsProbe(known) == ~known

\* the trait is probed at its first item, whatever the item is
TraitItemEagerProbe ==
    /\ pc = "traits"
    /\ ti <= Len(traits_in_scope)
    /\ ii <= Len(TraitItems(traits_in_scope[ti]))
    /\ LET t == traits_in_scope[ti]
           item == TraitItems(t)[ii]
           probed == NeedsProbe(known_implemented)
           holds == Probe(derefed_ty, t)
           asked == IF probed
                    THEN Append(trace, EvProbe(derefed_ty, t, holds))
                    ELSE trace
           built == IF probed
                    THEN Some(ProbeRef(derefed_ty, t))
                    ELSE probe_ref
       IN IF probed /\ ~holds
          THEN /\ trace' = asked
               /\ ti' = ti + 1
               /\ ii' = 1
               /\ known_implemented' = FALSE
               /\ probe_ref' = built
               /\ UNCHANGED <<result, pc>>
          ELSE IF item.kind = "Method" /\ Matches(name, item.id)
          THEN \E acc \in CallbackAnswers :
                 /\ known_implemented' = TRUE
                 /\ probe_ref' = built
                 /\ trace' = Append(asked, EvCall(derefed_ty, item.id, acc))
                 /\ ti' = ti
                 /\ IF acc
                    THEN /\ result' = Found(derefed_ty, item.id)
                         /\ pc' = "done"
                         /\ ii' = ii
                    ELSE /\ ii' = ii + 1
                         /\ UNCHANGED <<result, pc>>
          ELSE /\ ii' = ii + 1
               /\ known_implemented' = TRUE
               /\ probe_ref' = built
               /\ trace' = asked
               /\ UNCHANGED <<result, pc, ti>>
    /\ UNCHANGED <<world, syntax_vars, index_vars, items_vars, api, self_ty,
                   name, scope, di, blocks>>

\* iterate_trait_method_candidates: one item of the current trait in scope
TraitItem ==
    /\ pc = "traits"
    /\ ti <= Len(traits_in_scope)
    /\ ii <= Len(TraitItems(traits_in_scope[ti]))
    /\ LET t == traits_in_scope[ti]
           item == TraitItems(t)[ii]
           probed == NeedsProbe(known_implemented)
           holds == Probe(derefed_ty, t)
           asked == IF probed
                    THEN Append(trace, EvProbe(derefed_ty, t, holds))
                    ELSE trace
       IN IF item.kind = "Method" /\ Matches(name, item.id)
          THEN IF probed /\ ~holds
               THEN \* continue 'traits
                    /\ trace' = asked
                    /\ ti' = ti + 1
                    /\ ii' = 1
                    /\ known_implemented' = FALSE
                    /\ probe_ref' = Some(ProbeRef(derefed_ty, t))
                    /\ UNCHANGED <<result, pc>>
               ELSE \E acc \in CallbackAnswers :
                      /\ known_implemented' = TRUE
                      /\ probe_ref' = IF probed
                                      THEN Some(ProbeRef(derefed_ty, t))
                                      ELSE probe_ref
                      /\ trace' = Append(asked, EvCall(derefed_ty, item.id, acc))
                      /\ ti' = ti
                      /\ IF acc
                         THEN /\ result' = Found(derefed_ty, item.id)
                              /\ pc' = "done"
                              /\ ii' = ii
                         ELSE /\ ii' = ii + 1
                              /\ UNCHANGED <<result, pc>>
          ELSE /\ ii' = ii + 1
               /\ UNCHANGED <<trace, result, pc, ti, known_implemented,
                              probe_ref>>
    /\ UNCHANGED <<world, syntax_vars, index_vars, items_vars, api, self_ty,
                   name, scope, di, blocks>>

\* the items of a trait are walked again once they are exhausted
TraitAdvanceRestarts ==
    /\ pc = "traits"
    /\ IF ti > Len(traits_in_scope)
       THEN /\ pc' = "deref"
            /\ di' = di + 1
       ELSE /\ ii > Len(TraitItems(traits_in_scope[ti]))
            /\ UNCHANGED <<pc, di>>
    /\ ii' = 1
    /\ known_implemented' = FALSE
    /\ UNCHANGED <<world, syntax_vars, index_vars, items_vars, probe_ref,
                   api, self_ty, name, scope, blocks, trace, result, ti>>

\* only the first trait in scope is searched
TraitAdvanceOnlyFirst ==
    /\ pc = "traits"
    /\ IF ti > Len(traits_in_scope)
       THEN /\ pc' = "deref"
            /\ di' = di + 1
            /\ UNCHANGED ti
       ELSE /\ ii > Len(TraitItems(traits_in_scope[ti]))
            /\ ti' = Len(traits_in_scope) + 1
            /\ UNCHANGED <<pc, di>>
    /\ ii' = 1
    /\ known_implemented' = FALSE
    /\ UNCHANGED <<world, syntax_vars, index_vars, items_vars, probe_ref,
                   api, self_ty, name, scope, blocks, trace, result>>

\* iterate_trait_method_candidates: the next trait, or None after the last,
\* which sends iterate_method_candidates to the next autoderef step
TraitAdvance ==
    /\ pc = "traits"
    /\ IF ti > Len(traits_in_scope)
       THEN /\ pc' = "deref"
            /\ di' = di + 1
            /\ UNCHANGED ti
       ELSE /\ ii > Len(TraitItems(traits_in_scope[ti]))
            /\ ti' = ti + 1
            /\ UNCHANGED <<pc, di>>
    /\ ii' = 1
    /\ known_implemented' = FALSE
    /\ UNCHANGED <<world, syntax_vars, index_vars, items_vars, probe_ref,
                   api, self_ty, name, scope, blocks, trace, result>>

\* the caller has the result; the next request may start
Return ==
    /\ pc = "done"
    /\ pc' = "idle"
    /\ api' = "none"
    /\ self_ty' = Unknown
    /\ name' = None
    /\ scope' = <<>>
    /\ di' = 1
    /\ blocks' = <<>>
    /\ ti' = 1
    /\ ii' = 1
    /\ known_implemented' = FALSE
    /\ trace' = <<>>
    /\ result' = None
    /\ probe_ref' = None
    /\ UNCHANGED <<world, syntax_vars, index_vars, items_vars>>

\* the verdicts the oracle may hold
OracleChoices ==
    {{<<TyS, "Tr1">>, <<RefTo(TyS), "Tr2">>, <<TyP, "Tr1">>, <<TyP, "Tr2">>,
      <<TyGS, "Tr2">>},
     {<<TyS, "Tr2">>, <<RefTo(TyS), "Tr1">>, <<TyGBool, "Tr1">>,
      <<TyBool, "Tr1">>, <<Bound(0), "Tr2">>, <<TyQ, "Tr1">>}}

\* no index is built, no search and no call of iterate_impl_items is running
ResolutionIdle ==
    /\ db_impls = <<>>
    /\ building = EmptyIndex(1)
    /\ stack = <<>>
    /\ pc = "idle"
    /\ api = "none"
    /\ self_ty = Unknown
    /\ name = None
    /\ scope = <<>>
    /\ di = 1
    /\ blocks = <<>>
    /\ ti = 1
    /\ ii = 1
    /\ known_implemented = FALSE
    /\ trace = <<>>
    /\ result = None
    /\ probe_ref = None
    /\ stale = <<>>
    /\ it_pc = "idle"
    /\ it_self = Unknown
    /\ it_blocks = <<>>
    /\ it_ii = 1
    /\ it_trace = <<>>
    /\ it_result = None

\* the parser has no input; no impl node is looked at
SyntaxIdle ==
    /\ p_tokens = <<>>
    /\ p_pos = 1
    /\ p_frames = <<>>
    /\ p_out = None
    /\ impl_node = <<>>
    /\ asked_type = FALSE
    /\ asked_trait = FALSE
    /\ got_type = None
    /\ got_trait = None

Init ==
    /\ unit \in Units
    /\ impl_facts \in OracleChoices
    /\ ResolutionIdle
    /\ SyntaxIdle

Next ==
    \/ \E krate \in Crates : ImplsInCrateQuery(krate)
    \/ CollectImpl
    \/ CollectChild
    \/ CollectReturn
    \/ Publish
    \/ \E entry \in {"lookup_method", "iterate_method_candidates"},
          ty \in Receivers, nm \in {None} \cup {Some(n) : n \in Names},
          sc \in Scopes :
            BeginSearch(entry, ty, nm, sc)
    \/ AutoderefNext
    \/ InherentItem
    \/ InherentAdvance
    \/ TraitItem
    \/ TraitAdvance
    \/ Return

Spec == Init /\ [][Next]_vars

(***************************************************************************)
(* Ty::iterate_impl_items, and the database dropping a memoized index.     *)
(***************************************************************************)
ItemReceivers == {TyS, RefTo(TyS), TyGBool, TyGS, TyBool, TyP, TyQ, TyX, Infer(0)}

\* the database forgets the memoized index of a crate; the next
\* impls_in_crate query for the crate builds it again
Invalidate(krate) ==
    /\ pc = "idle"
    /\ it_pc = "idle"
    /\ krate \in DOMAIN db_impls
    /\ krate \notin DOMAIN stale
    /\ stale' = [k \in DOMAIN stale \cup {krate} |->
                   IF k = krate THEN db_impls[k] ELSE stale[k]]
    /\ db_impls' = [k \in DOMAIN db_impls \ {krate} |-> db_impls[k]]
    /\ UNCHANGED <<world, syntax_vars, building, stack, pc, search_vars,
                   items_vars>>

\* the blocks of the type are taken out of the shared index
BeginImplItemsTakes(ty) ==
    /\ it_pc = "idle"
    /\ DOMAIN db_impls = Crates
    /\ it_self' = ty
    /\ LET krate == def_crate(ty)
       IN IF krate.some
          THEN /\ it_blocks' = lookup_impl_blocks(db_impls[krate.val], ty)
               /\ it_pc' = "items"
               /\ db_impls' =
                    [db_impls EXCEPT ![krate.val].impls =
                       [fp \in DOMAIN @ \ {Fingerprint(ty.ctor)} |-> @[fp]]]
          ELSE /\ it_blocks' = <<>>
               /\ it_pc' = "done"
               /\ UNCHANGED db_impls
    /\ it_result' = None
    /\ UNCHANGED <<world, syntax_vars, building, stack, stale, pc,
                   search_vars, it_ii, it_trace>>

\* iterate_impl_items is called: let krate = def_crate(db, &self)?; let impls
\* = db.impls_in_crate(krate); impls.lookup_impl_blocks(&self)
BeginImplItems(ty) ==
    /\ it_pc = "idle"
    /\ DOMAIN db_impls = Crates
    /\ it_self' = ty
    /\ LET krate == def_crate(ty)
       IN IF krate.some
          THEN /\ it_blocks' = lookup_impl_blocks(db_impls[krate.val], ty)
               /\ it_pc' = "items"
          ELSE /\ it_blocks' = <<>>
               /\ it_pc' = "done"
    /\ it_result' = None
    /\ UNCHANGED <<world, syntax_vars, index_vars, pc, search_vars, it_ii,
                   it_trace>>

\* only the methods with a receiver are passed to the callback
ImplItemsItemMethodsOnly ==
    /\ it_pc = "items"
    /\ it_blocks # <<>>
    /\ it_ii <= Len(items(Head(it_blocks)))
    /\ LET item == items(Head(it_blocks))[it_ii]
       IN IF item.kind = "Method" /\ Sig(item.id).has_self_param
          THEN \E acc \in BOOLEAN :
                 /\ it_trace' = Append(it_trace, EvCall(it_self, item.id, acc))
                 /\ IF acc
                    THEN /\ it_result' = Some(item)
                         /\ it_pc' = "done"
                         /\ it_ii' = it_ii
                    ELSE /\ it_ii' = it_ii + 1
                         /\ UNCHANGED <<it_result, it_pc>>
          ELSE /\ it_ii' = it_ii + 1
               /\ UNCHANGED <<it_trace, it_result, it_pc>>
    /\ UNCHANGED <<world, syntax_vars, index_vars, pc, search_vars, it_self,
                   it_blocks>>

\* iterate_impl_items: one member item of the current impl block
ImplItemsItem ==
    /\ it_pc = "items"
    /\ it_blocks # <<>>
    /\ it_ii <= Len(items(Head(it_blocks)))
    /\ LET item == items(Head(it_blocks))[it_ii]
       IN \E acc \in BOOLEAN :
            /\ it_trace' = Append(it_trace, EvCall(it_self, item.id, acc))
            /\ IF acc
               THEN /\ it_result' = Some(item)
                    /\ it_pc' = "done"
                    /\ it_ii' = it_ii
               ELSE /\ it_ii' = it_ii + 1
                    /\ UNCHANGED <<it_result, it_pc>>
    /\ UNCHANGED <<world, syntax_vars, index_vars, pc, search_vars, it_self,
                   it_blocks>>

\* iterate_impl_items: the next impl block, or None after the last
ImplItemsAdvance ==
    /\ it_pc = "items"
    /\ IF it_blocks = <<>>
       THEN /\ it_pc' = "done"
            /\ UNCHANGED it_blocks
       ELSE /\ it_ii > Len(items(Head(it_blocks)))
            /\ it_blocks' = Tail(it_blocks)
            /\ UNCHANGED it_pc
    /\ it_ii' = 1
    /\ UNCHANGED <<world, syntax_vars, index_vars, pc, search_vars, it_self,
                   it_trace, it_result>>

\* the caller of iterate_impl_items has the result
ImplItemsReturn ==
    /\ it_pc = "done"
    /\ it_pc' = "idle"
    /\ it_self' = Unknown
    /\ it_blocks' = <<>>
    /\ it_ii' = 1
    /\ it_trace' = <<>>
    /\ it_result' = None
    /\ UNCHANGED <<world, syntax_vars, index_vars, pc, search_vars>>

NextIndex ==
    \/ \E krate \in Crates : ImplsInCrateQuery(krate)
    \/ CollectImpl
    \/ CollectChild
    \/ CollectReturn
    \/ Publish
    \/ \E krate \in Crates : Invalidate(krate)
    \/ \E ty \in ItemReceivers : BeginImplItems(ty)
    \/ ImplItemsItem
    \/ ImplItemsAdvance
    \/ ImplItemsReturn

SpecIndex == Init /\ [][NextIndex]_vars

(***************************************************************************)
(* A search and a call of iterate_impl_items in flight at the same time,   *)
(* their steps interleaved in any order.                                   *)
(***************************************************************************)
ConcReceivers == {RefTo(TyS), TyGBool}
ConcNames == {None, Some("foo")}
ConcScopes == {<<"Tr2", "Tr1">>}
ConcItemReceivers == {TyS, TyGS, TyBool}

NextConc ==
    \/ \E krate \in Crates : ImplsInCrateQuery(krate)
    \/ CollectImpl
    \/ CollectChild
    \/ CollectReturn
    \/ Publish
    \/ \E entry \in {"lookup_method", "iterate_method_candidates"},
          ty \in ConcReceivers, nm \in ConcNames, sc \in ConcScopes :
            BeginSearch(entry, ty, nm, sc)
    \/ AutoderefNext
    \/ InherentItem
    \/ InherentAdvance
    \/ TraitItem
    \/ TraitAdvance
    \/ Return
    \/ \E ty \in ConcItemReceivers : BeginImplItems(ty)
    \/ ImplItemsItem
    \/ ImplItemsAdvance
    \/ ImplItemsReturn

SpecConc == Init /\ [][NextConc]_vars

(***************************************************************************)
(* A search runs on the calling thread: while it has a step to take, it    *)
(* takes it.                                                               *)
(***************************************************************************)
SearchStep ==
    \/ AutoderefNext
    \/ InherentItem
    \/ InherentAdvance
    \/ TraitItem
    \/ TraitAdvance

SpecLive == Init /\ [][Next]_vars /\ WF_vars(SearchStep)

(***************************************************************************)
(* grammar::expressions: the binary-operator part of the expression        *)
(* parser. A token is its SyntaxKind; a node is its kind, the position of  *)
(* its first token and its children.                                       *)
(***************************************************************************)
MaxOps == 3

Node(kind, start, ch) == [k |-> kind, at |-> start, ch |-> ch]

\* Parser::current, Parser::nth, Parser::at_compound2
nth(n) == IF p_pos + n <= Len(p_tokens) THEN p_tokens[p_pos + n] ELSE "EOF"
current == nth(0)
at_compound2(c1, c2) == current = c1 /\ nth(1) = c2

Simple == [composite |-> FALSE, kind |-> "", n |-> 1]
Composite(kind, n) == [composite |-> TRUE, kind |-> kind, n |-> n]

current_op ==
    IF at_compound2("PLUS", "EQ")
    THEN [bp |-> 1, op |-> Composite("PLUSEQ", 2)]
    ELSE IF at_compound2("MINUS", "EQ")
    THEN [bp |-> 1, op |-> Composite("MINUSEQ", 2)]
    ELSE IF at_compound2("PIPE", "PIPE")
    THEN [bp |-> 3, op |-> Composite("PIPEPIPE", 2)]
    ELSE IF at_compound2("AMPERSAND", "AMPERSAND")
    THEN [bp |-> 4, op |-> Composite("AMPERSANDAMPERSAND", 2)]
    ELSE IF at_compound2("L_ANGLE", "EQ")
    THEN [bp |-> 5, op |-> Composite("LTEQ", 2)]
    ELSE IF at_compound2("R_ANGLE", "EQ")
    THEN [bp |-> 5, op |-> Composite("GTEQ", 2)]
    ELSE [bp |-> CASE current = "EQ" -> 1
                   [] current = "DOTDOT" -> 2
                   [] current \in {"EQEQ", "NEQ"} -> 5
                   [] current \in {"MINUS", "PLUS"} -> 6
                   [] current \in {"STAR", "SLASH"} -> 7
                   [] OTHER -> 0,
          op |-> Simple]

\* one call under way: expr_bp before (at = "lhs") or in (at = "loop") its
\* loop, or lhs / bin_expr between its call of expr_bp and m.complete
Call(fn, bp, at, l, kind, start, op) ==
    [fn |-> fn, bp |-> bp, at |-> at, lhs |-> l, kind |-> kind,
     start |-> start, op |-> op]

NoNode == Node("", 0, <<>>)
expr_bp(bp) == Call("expr_bp", bp, "lhs", None, "", 0, NoNode)

\* the operand of a binary operator is parsed from the lowest power
bin_expr_lowest(l, bp, op) ==
    <<Call("bin_expr", bp, "", Some(l), "BIN_EXPR", l.at, op), expr_bp(1)>>

\* bin_expr up to its call of expr_bp: let m = lhs.precede(p); expr_bp(p, r, bp)
bin_expr(l, bp, op) ==
    <<Call("bin_expr", bp, "", Some(l), "BIN_EXPR", l.at, op), expr_bp(bp)>>

PTop == p_frames[Len(p_frames)]
PRest == SubSeq(p_frames, 1, Len(p_frames) - 1)
InExprBp(at) == p_frames # <<>> /\ PTop.fn = "expr_bp" /\ PTop.at = at

Atoms == {"IDENT", "INT_NUMBER"}

\* the kind of the prefix expression a token starts
PrefixKind(t) ==
    CASE t = "AMPERSAND" -> "REF_EXPR"
      [] t = "STAR" -> "DEREF_EXPR"
      [] t = "EXCL" -> "NOT_EXPR"
      [] OTHER -> ""

\* lhs: a prefix operator; its operand is expr_bp(p, r, 255)
LhsPrefix ==
    /\ InExprBp("lhs")
    /\ PrefixKind(current) # ""
    /\ p_pos' = p_pos + 1
                + (IF current = "AMPERSAND" /\ nth(1) = "MUT_KW" THEN 1 ELSE 0)
    /\ p_frames' = p_frames \o
         <<Call("lhs", 0, "", None, PrefixKind(current), p_pos,
                Node(current, p_pos, <<>>)),
           expr_bp(255)>>
    /\ UNCHANGED <<world, index_vars, pc, search_vars, items_vars, ast_vars,
                   p_tokens, p_out>>

\* lhs: a prefix range; its operand is expr_bp(p, r, 2)
LhsRange ==
    /\ InExprBp("lhs")
    /\ current = "DOTDOT"
    /\ p_pos' = p_pos + 1
    /\ p_frames' = p_frames \o
         <<Call("lhs", 0, "", None, "RANGE_EXPR", p_pos,
                Node(current, p_pos, <<>>)),
           expr_bp(2)>>
    /\ UNCHANGED <<world, index_vars, pc, search_vars, items_vars, ast_vars,
                   p_tokens, p_out>>

\* lhs: atom::atom_expr and postfix_expr on a literal or a name
LhsAtom ==
    /\ InExprBp("lhs")
    /\ current \in Atoms
    /\ p_pos' = p_pos + 1
    /\ p_frames' = Append(PRest,
         [PTop EXCEPT !.at = "loop",
                      !.lhs = Some(Node(current, p_pos, <<>>))])
    /\ UNCHANGED <<world, index_vars, pc, search_vars, items_vars, ast_vars,
                   p_tokens, p_out>>

\* lhs: atom::atom_expr finds no expression (it may skip the token it is
\* at); lhs is None and expr_bp returns
LhsNone ==
    /\ InExprBp("lhs")
    /\ PrefixKind(current) = ""
    /\ current # "DOTDOT"
    /\ current \notin Atoms
    /\ \E skipped \in {0, 1} :
         /\ skipped = 1 => current # "EOF"
         /\ p_pos' = p_pos + skipped
    /\ p_frames' = PRest
    /\ p_out' = None
    /\ UNCHANGED <<world, index_vars, pc, search_vars, items_vars, ast_vars,
                   p_tokens>>

\* the loop is left at an operator of the same power too
StopsAtEqual(op_bp, bp) == op_bp <= bp

\* if op_bp < bp { break; }
Stops(op_bp, bp) == op_bp < bp

\* expr_bp: the loop ends, expr_bp returns
LoopBreak ==
    /\ InExprBp("loop")
    /\ Stops(current_op.bp, PTop.bp)
    /\ p_frames' = PRest
    /\ p_out' = PTop.lhs
    /\ UNCHANGED <<world, index_vars, pc, search_vars, items_vars, ast_vars,
                   p_tokens, p_pos>>

\* expr_bp: the operator is bumped and bin_expr is called
LoopOp ==
    /\ InExprBp("loop")
    /\ ~Stops(current_op.bp, PTop.bp)
    /\ p_pos' = p_pos + current_op.op.n
    /\ p_frames' = p_frames \o
         bin_expr(PTop.lhs.val, current_op.bp,
                  Node(IF current_op.op.composite
                       THEN current_op.op.kind ELSE current,
                       p_pos, <<>>))
    /\ UNCHANGED <<world, index_vars, pc, search_vars, items_vars, ast_vars,
                   p_tokens, p_out>>

\* what m.complete(p, kind) makes of the tokens and nodes since the marker
Complete(call, operand) ==
    Node(call.kind, call.start,
         (IF call.lhs.some THEN <<call.lhs.val>> ELSE <<>>)
         \o <<call.op>>
         \o (IF operand.some THEN <<operand.val>> ELSE <<>>))

\* bin_expr: m.complete(p, BIN_EXPR); the node is the lhs of the caller's loop
CompleteBin ==
    /\ p_frames # <<>>
    /\ PTop.fn = "bin_expr"
    /\ p_frames' = [PRest EXCEPT ![Len(PRest)].lhs = Some(Complete(PTop, p_out))]
    /\ p_out' = None
    /\ UNCHANGED <<world, index_vars, pc, search_vars, items_vars, ast_vars,
                   p_tokens, p_pos>>

\* lhs: Some(m.complete(p, kind)); expr_bp goes on with its loop
CompleteLhs ==
    /\ p_frames # <<>>
    /\ PTop.fn = "lhs"
    /\ p_frames' = [PRest EXCEPT ![Len(PRest)].lhs = Some(Complete(PTop, p_out)),
                                 ![Len(PRest)].at = "loop"]
    /\ p_out' = None
    /\ UNCHANGED <<world, index_vars, pc, search_vars, items_vars, ast_vars,
                   p_tokens, p_pos>>

\* the tokens the lexer makes of an operator
Lexed(op) ==
    CASE op = "PLUSEQ" -> <<"PLUS", "EQ">>
      [] op = "MINUSEQ" -> <<"MINUS", "EQ">>
      [] op = "PIPEPIPE" -> <<"PIPE", "PIPE">>
      [] op = "AMPERSANDAMPERSAND" -> <<"AMPERSAND", "AMPERSAND">>
      [] op = "LTEQ" -> <<"L_ANGLE", "EQ">>
      [] op = "GTEQ" -> <<"R_ANGLE", "EQ">>
      [] OTHER -> <<op>>

InputOps == {"EQ", "PLUSEQ", "DOTDOT", "AMPERSANDAMPERSAND", "EQEQ", "PLUS",
             "STAR"}

RECURSIVE Chains(_)
\* operand (operator operand)*, with up to n operators
Chains(n) ==
    IF n = 0 THEN {<<"IDENT">>}
    ELSE Chains(n - 1) \cup
         {c \o Lexed(op) \o <<"IDENT">> : c \in Chains(n - 1), op \in InputOps}

\* statements: an optional prefix operator, a chain or nothing, and the `;`
ParserInputs ==
    {pre \o c \o <<"SEMI">> :
       pre \in {<<>>, <<"STAR">>, <<"DOTDOT">>},
       c \in Chains(MaxOps) \cup {<<>>}}

\* expr(p) is called on the input: expr_bp(p, r, 1)
InitParse ==
    /\ unit = "plain"
    /\ impl_facts = {}
    /\ ResolutionIdle
    /\ p_tokens \in ParserInputs
    /\ p_pos = 1
    /\ p_frames = <<expr_bp(1)>>
    /\ p_out = None
    /\ impl_node = <<>>
    /\ asked_type = FALSE
    /\ asked_trait = FALSE
    /\ got_type = None
    /\ got_trait = None

NextParse ==
    \/ LhsPrefix
    \/ LhsRange
    \/ LhsAtom
    \/ LhsNone
    \/ LoopBreak
    \/ LoopOp
    \/ CompleteBin
    \/ CompleteLhs

SpecParse == InitParse /\ [][NextParse]_vars

(***************************************************************************)
(* ast::ImplBlock: the accessors of an impl node's target.  The node is    *)
(* the sequence of the kinds of its child nodes; a child is known by its   *)
(* kind and its place among the children.                                  *)
(***************************************************************************)
MaxChildren == 4

TypeRefKinds == {"PATH_TYPE", "REFERENCE_TYPE"}
ChildKinds == TypeRefKinds \cup {"TYPE_PARAM_LIST", "ITEM_LIST"}

\* children(self): the child nodes that cast to TypeRef, in order
type_ref_children(node) ==
    SelectSeq([i \in DOMAIN node |-> [k |-> node[i], at |-> i]],
              LAMBDA c : c.k \in TypeRefKinds)

\* Iterator::next, called for the n-th time
next(types, n) == IF n <= Len(types) THEN Some(types[n]) ELSE None

target(node) ==
    LET types == type_ref_children(node)
        first == next(types, 1)
        second == next(types, 2)
    IN <<first, second>>

target_type(node) ==
    LET t == target(node)
    IN IF t[1].some /\ ~t[2].some THEN Some(t[1].val)
       ELSE IF t[2].some THEN Some(t[2].val)
       ELSE None

target_trait_first(node) ==
    LET t == target(node)
    IN IF t[1].some THEN Some(t[1].val) ELSE None

target_trait(node) ==
    LET t == target(node)
    IN IF t[1].some /\ t[2].some THEN Some(t[1].val) ELSE None

CallTargetType ==
    /\ ~asked_type
    /\ asked_type' = TRUE
    /\ got_type' = target_type(impl_node)
    /\ UNCHANGED <<world, index_vars, pc, search_vars, items_vars,
                   parser_vars, impl_node, asked_trait, got_trait>>

CallTargetTrait ==
    /\ ~asked_trait
    /\ asked_trait' = TRUE
    /\ got_trait' = target_trait(impl_node)
    /\ UNCHANGED <<world, index_vars, pc, search_vars, items_vars,
                   parser_vars, impl_node, asked_type, got_type>>

RECURSIVE NodesUpTo(_)
NodesUpTo(n) ==
    IF n = 0 THEN {<<>>}
    ELSE LET shorter == NodesUpTo(n - 1)
         IN shorter \cup {Append(node, k) : node \in shorter, k \in ChildKinds}

InitAst ==
    /\ unit = "plain"
    /\ impl_facts = {}
    /\ ResolutionIdle
    /\ p_tokens = <<>>
    /\ p_pos = 1
    /\ p_frames = <<>>
    /\ p_out = None
    /\ impl_node \in NodesUpTo(MaxChildren)
    /\ asked_type = FALSE
    /\ asked_trait = FALSE
    /\ got_type = None
    /\ got_trait = None

NextAst ==
    \/ CallTargetType
    \/ CallTargetTrait

SpecAst == InitAst /\ [][NextAst]_vars

(***************************************************************************)
(* What the language rules say a search should see, read off the crates'   *)
(* source and the oracle alone (never off the index or the search state).  *)
(***************************************************************************)
Range(q) == {q[k] : k \in DOMAIN q}
Last(q) == q[Len(q)]

RECURSIVE PreorderAll(_, _)
PreorderAll(krate, ms) ==
    IF ms = <<>> THEN <<>>
    ELSE <<Head(ms)>> \o PreorderAll(krate, children(krate, Head(ms)))
                      \o PreorderAll(krate, Tail(ms))

\* the modules of a crate, a module before its descendants, children in order
ModulesInOrder(krate) ==
    IF root_module(krate).some
    THEN PreorderAll(krate, <<root_module(krate).val>>)
    ELSE <<>>

BlockRef(k, m, i) == [krate |-> k, module_id |-> m, impl_id |-> i]
Declared(b) == impls_in_module(b.krate, b.module_id)[b.impl_id]

RECURSIVE BlocksOfModules(_, _)
BlocksOfModules(krate, ms) ==
    IF ms = <<>> THEN <<>>
    ELSE [i \in 1..Len(impls_in_module(krate, Head(ms))) |->
            BlockRef(krate, Head(ms), i)]
         \o BlocksOfModules(krate, Tail(ms))

\* every impl block of a crate, in pre-order of the module tree
BlockRefs(krate) == BlocksOfModules(krate, ModulesInOrder(krate))

IsInherent(b) == ~Declared(b).target_trait.some
HasHead(ty) == ty.kind = "Apply"

\* the crate that owns a type: that of its ADT, if it is one
Owner(ty) ==
    IF ty.kind = "Apply" /\ ty.ctor.tag = "Adt" THEN AdtKrate(ty.ctor.def) ELSE None

Eligible(nm, f) == Sig(f).has_self_param /\ (nm.some => Sig(f).name = nm.val)

RECURSIVE MethodsOf(_, _)
MethodsOf(its, nm) ==
    IF its = <<>> THEN <<>>
    ELSE (IF Head(its).kind = "Method" /\ Eligible(nm, Head(its).id)
          THEN <<Head(its).id>> ELSE <<>>) \o MethodsOf(Tail(its), nm)

RECURSIVE InherentOfBlocks(_, _, _)
InherentOfBlocks(bs, ty, nm) ==
    IF bs = <<>> THEN <<>>
    ELSE (IF /\ IsInherent(Head(bs))
             /\ HasHead(Declared(Head(bs)).target_ty)
             /\ Declared(Head(bs)).target_ty.ctor = ty.ctor
          THEN MethodsOf(Declared(Head(bs)).items, nm) ELSE <<>>)
         \o InherentOfBlocks(Tail(bs), ty, nm)

\* the inherent methods of a type, in the order of the source
InherentSeq(ty, nm) ==
    IF Owner(ty).some /\ HasHead(ty)
    THEN InherentOfBlocks(BlockRefs(Owner(ty).val), ty, nm)
    ELSE <<>>

\* the oracle's verdict on "ty implements t"
Holds(ty, t) == <<IF ty.kind = "Infer" THEN Bound(0) ELSE ty, t>> \in impl_facts

RECURSIVE TraitSeq(_, _, _)
TraitSeq(ty, nm, sc) ==
    IF sc = <<>> THEN <<>>
    ELSE (IF Holds(ty, Head(sc)) THEN MethodsOf(TraitItems(Head(sc)), nm) ELSE <<>>)
         \o TraitSeq(ty, nm, Tail(sc))

IsTraitFn(f) == \E t \in Traits : Method(f) \in Range(TraitItems(t))
TraitOf(f) == IF IsTraitFn(f)
              THEN CHOOSE t \in Traits : Method(f) \in Range(TraitItems(t))
              ELSE ""

At(ty, fs) == [k \in 1..Len(fs) |-> [ty |-> ty, f |-> fs[k]]]

\* the candidates of one autoderef step: inherent ones, then trait ones
StepSeq(ty, nm, sc) == At(ty, InherentSeq(ty, nm) \o TraitSeq(ty, nm, sc))

RECURSIVE ChainSeq(_, _, _)
ChainSeq(tys, nm, sc) ==
    IF tys = <<>> THEN <<>>
    ELSE StepSeq(Head(tys), nm, sc) \o ChainSeq(Tail(tys), nm, sc)

\* the candidates of the running search, in search order
ExpectedSeq == ChainSeq(autoderef(self_ty), name, scope)

StepOf(ty) == IF \E k \in 1..Len(Chain) : Chain[k] = ty
              THEN CHOOSE k \in 1..Len(Chain) : Chain[k] = ty
              ELSE 0

IsCall(e) == e.ev = "call"
IsProbe(e) == e.ev = "probe"
Offered(ty, f, before) ==
    \E i \in 1..(before - 1) : IsCall(trace[i]) /\ trace[i].ty = ty /\ trace[i].f = f
Finished == pc = "done"
Looked == pc = "done" /\ api = "lookup_method"

(***************************************************************************)
(* C1: within one autoderef step the inherent candidates of the type come  *)
(* before its trait candidates: when the callback is called with a trait   *)
(* method at T, every inherent candidate of T has been offered already and *)
(* none is offered afterwards; so lookup_method answers with an inherent   *)
(* method of the type it stops at whenever that type has one.              *)
(***************************************************************************)
C1_InherentShadowsTrait ==
    /\ \A j \in 1..Len(trace) :
         (IsCall(trace[j]) /\ IsTraitFn(trace[j].f)) =>
            /\ \A f \in Range(InherentSeq(trace[j].ty, name)) :
                 Offered(trace[j].ty, f, j)
            /\ \A i \in (j + 1)..Len(trace) :
                 ~(IsCall(trace[i]) /\ trace[i].ty = trace[j].ty
                   /\ ~IsTraitFn(trace[i].f))
    /\ (Looked /\ result.some /\ InherentSeq(result.val.ty, name) # <<>>) =>
         result.val.f \in Range(InherentSeq(result.val.ty, name))

\* lookup_method has answered with an inherent method although a trait in
\* scope that the type implements declares a method of that name
C1_Witness ==
    /\ Looked
    /\ result.some
    /\ ~IsTraitFn(result.val.f)
    /\ TraitSeq(result.val.ty, name, scope) # <<>>

(***************************************************************************)
(* C2: an earlier autoderef step shadows every later one: when the         *)
(* callback is called at a type, every candidate (inherent and trait) of   *)
(* every earlier type of the autoderef sequence has been offered already,  *)
(* and the steps of the calls never go back.                               *)
(***************************************************************************)
C2_EarlierStepShadowsLater ==
    \A j \in 1..Len(trace) :
      IsCall(trace[j]) =>
        /\ StepOf(trace[j].ty) > 0
        /\ \A k \in 1..(StepOf(trace[j].ty) - 1) :
             \A c \in Range(StepSeq(Chain[k], name, scope)) : Offered(c.ty, c.f, j)
        /\ \A i \in 1..(j - 1) :
             IsCall(trace[i]) => StepOf(trace[i].ty) <= StepOf(trace[j].ty)

\* a trait method of the first step has been returned although a later step
\* has an inherent method of the same name
C2_Witness ==
    /\ Looked
    /\ result.some
    /\ IsTraitFn(result.val.f)
    /\ result.val.ty = self_ty
    /\ \E k \in 2..Len(Chain) : InherentSeq(Chain[k], name) # <<>>

(***************************************************************************)
(* C3: early exit: a call the callback accepts is the last event of the    *)
(* search (no later call, oracle query or autoderef step), the search is   *)
(* over, and its result is exactly that call's value; a present result     *)
(* comes from nowhere else.                                                *)
(***************************************************************************)
C3_EarlyExit ==
    /\ \A i \in 1..Len(trace) :
         (IsCall(trace[i]) /\ trace[i].ok) =>
            /\ i = Len(trace)
            /\ pc = "done"
            /\ result = Some([ty |-> trace[i].ty, f |-> trace[i].f])
    /\ result.some => (trace # <<>> /\ IsCall(Last(trace)) /\ Last(trace).ok)

\* the callback accepted a trait method while a later autoderef step and a
\* later item of the trait were still to come
C3_Witness ==
    /\ Finished
    /\ api = "iterate_method_candidates"
    /\ result.some
    /\ IsTraitFn(result.val.f)
    /\ di < Len(Chain)
    /\ ii < Len(TraitItems(scope[ti]))

(***************************************************************************)
(* C4: single probe: within one search the oracle is asked at most once    *)
(* about a pair (derefed type, trait in scope), whatever its answer and    *)
(* however many methods of the trait pass the filter.                      *)
(***************************************************************************)
C4_SingleProbe ==
    \A i, j \in 1..Len(trace) :
      (i < j /\ IsProbe(trace[i]) /\ IsProbe(trace[j])) =>
        ~(trace[i].ty = trace[j].ty /\ trace[i].trait = trace[j].trait)

\* one search in which a trait with two matching methods failed its probe and
\* another trait, probed once, had two of its methods offered
C4_Witness ==
    /\ \E i \in 1..Len(trace) :
         /\ IsProbe(trace[i])
         /\ ~trace[i].ok
         /\ Len(MethodsOf(TraitItems(trace[i].trait), name)) >= 2
    /\ \E i, j, k \in 1..Len(trace) :
         /\ i < j /\ j < k
         /\ IsProbe(trace[i]) /\ trace[i].ok
         /\ IsCall(trace[j]) /\ IsCall(trace[k])
         /\ trace[j].ty = trace[i].ty /\ trace[k].ty = trace[i].ty
         /\ TraitOf(trace[j].f) = trace[i].trait
         /\ TraitOf(trace[k].f) = trace[i].trait

(***************************************************************************)
(* C5: the scope gates trait methods: the callback gets a trait method     *)
(* only if its trait is in scope, and lookup_method answers None when no   *)
(* type of the autoderef sequence has an inherent method of that name or a *)
(* method of that name in an implemented trait that is in scope, whatever  *)
(* the traits out of scope provide.                                        *)
(***************************************************************************)
C5_ScopeGatesTraitMethods ==
    /\ \A j \in 1..Len(trace) :
         (IsCall(trace[j]) /\ IsTraitFn(trace[j].f)) =>
            TraitOf(trace[j].f) \in Range(scope)
    /\ (Looked /\ \A k \in 1..Len(Chain) :
                    /\ InherentSeq(Chain[k], name) = <<>>
                    /\ TraitSeq(Chain[k], name, scope) = <<>>)
         => result = None

\* lookup_method answered None although the receiver implements a trait,
\* not in scope, that declares a method of that name
C5_Witness ==
    /\ Looked
    /\ result = None
    /\ \E t \in Traits \ Range(scope) :
         Holds(self_ty, t) /\ MethodsOf(TraitItems(t), name) # <<>>

(***************************************************************************)
(* C6: a trait the type does not implement contributes nothing and stops   *)
(* nothing: the answer of every probe is the oracle's, the callback never  *)
(* gets a method of a trait whose probe failed, and a search that nothing  *)
(* accepted has offered every matching method of every implemented trait   *)
(* in scope at every autoderef step, failed probes or not.                 *)
(***************************************************************************)
C6_UnimplementedTraitSkipped ==
    /\ \A j \in 1..Len(trace) :
         /\ IsProbe(trace[j]) => trace[j].ok = Holds(trace[j].ty, trace[j].trait)
         /\ (IsCall(trace[j]) /\ IsTraitFn(trace[j].f)) =>
               Holds(trace[j].ty, TraitOf(trace[j].f))
    /\ (Finished /\ ~result.some) =>
         \A k \in 1..Len(Chain) :
           \A f \in Range(TraitSeq(Chain[k], name, scope)) :
             Offered(Chain[k], f, Len(trace) + 1)

\* after a failed probe the same step offered a method of a later trait, and
\* a later autoderef step was taken
C6_Witness ==
    /\ Finished
    /\ \E i, j, k \in 1..Len(trace) :
         /\ i < j /\ j < k
         /\ IsProbe(trace[i]) /\ ~trace[i].ok
         /\ IsCall(trace[j]) /\ trace[j].ty = trace[i].ty
         /\ IsTraitFn(trace[j].f)
         /\ trace[k].ev = "deref"

(***************************************************************************)
(* C7: autoderef resolution: the type lookup_method returns, and the type  *)
(* the callback is given, is the type of the autoderef sequence at which   *)
(* the method is a candidate; when the receiver itself has no candidate of *)
(* the name and the type it points to has one, lookup_method succeeds with *)
(* the pointed-to type.                                                    *)
(***************************************************************************)
C7_AutoderefResolution ==
    /\ \A j \in 1..Len(trace) :
         IsCall(trace[j]) =>
            [ty |-> trace[j].ty, f |-> trace[j].f] \in Range(ExpectedSeq)
    /\ (Looked /\ result.some) => result.val \in Range(ExpectedSeq)
    /\ (/\ Looked
        /\ Len(Chain) >= 2
        /\ StepSeq(Chain[1], name, scope) = <<>>
        /\ StepSeq(Chain[2], name, scope) # <<>>)
         => (result.some /\ result.val.ty = Chain[2] /\ result.val.ty # self_ty)

\* lookup_method on &T found the method at T
C7_Witness ==
    /\ Looked
    /\ self_ty.ctor = CtorRef
    /\ result.some
    /\ result.val.ty = self_ty.args[1]

(***************************************************************************)
(* C8: lookup_method returns the first match only: its answer is the first *)
(* candidate of that name in search order, and None exactly when the whole *)
(* autoderef sequence has no candidate of that name.                       *)
(***************************************************************************)
C8_LookupFirstMatch ==
    Looked =>
      /\ result = IF ExpectedSeq = <<>> THEN None ELSE Some(Head(ExpectedSeq))
      /\ result.some => Sig(result.val.f).name = name.val

\* struct S with an inherent foo, nothing in scope: foo is found
C8_Witness ==
    /\ Looked
    /\ self_ty = TyS
    /\ name = Some("foo")
    /\ scope = <<>>
    /\ result.some
    /\ ~IsTraitFn(result.val.f)

(***************************************************************************)
(* C9: fingerprint soundness: applied types with the same constructor have *)
(* the same fingerprint whatever their arguments, and every inherent impl  *)
(* block of a crate whose target is an applied type is among the blocks    *)
(* the crate's published index yields for every type of that constructor.  *)
(***************************************************************************)
AppliedTypes ==
    {t \in Receivers \cup {RefTo(TyGBool), RefTo(TyP)} : t.kind = "Apply"}

C9_FingerprintSoundness ==
    /\ \A a, b \in AppliedTypes :
         a.ctor = b.ctor => (for_impl(a).some /\ for_impl(a) = for_impl(b))
    /\ \A krate \in DOMAIN db_impls :
         \A b \in Range(BlockRefs(krate)) :
           (IsInherent(b) /\ HasHead(Declared(b).target_ty)) =>
              \A t \in AppliedTypes :
                t.ctor = Declared(b).target_ty.ctor =>
                  b \in Range(lookup_impl_blocks(db_impls[krate], t))

\* the search visits, for G<bool>, an inherent impl block written for G<S>
C9_Witness ==
    /\ pc = "inherent"
    /\ derefed_ty = TyGBool
    /\ \E b \in Range(blocks) : Declared(b).target_ty = TyGS

(***************************************************************************)
(* C10: the partition of a published index: an impl block (of a module     *)
(* reachable from the root) with a target trait is once in the trait map,  *)
(* under that trait, and not in the fingerprint map; one without a trait   *)
(* and with an applied target type is once in the fingerprint map, under   *)
(* the target's constructor, and not in the trait map; any other block is  *)
(* in neither; and the maps hold nothing else.                             *)
(***************************************************************************)
Places(map, e) ==
    {p \in UNION {{<<key, i>> : i \in DOMAIN map[key]} : key \in DOMAIN map} :
       map[p[1]][p[2]] = e}

C10_IndexPartition ==
    \A krate \in DOMAIN db_impls :
      LET cib == db_impls[krate]
          refs == Range(BlockRefs(krate))
      IN /\ cib.krate = krate
         /\ \A b \in refs :
              LET e == <<b.module_id, b.impl_id>>
                  d == Declared(b)
                  by_trait == Places(cib.impls_by_trait, e)
                  by_fp == Places(cib.impls, e)
              IN IF d.target_trait.some
                 THEN /\ Cardinality(by_trait) = 1
                      /\ \A q \in by_trait : q[1] = d.target_trait.val
                      /\ by_fp = {}
                 ELSE IF HasHead(d.target_ty)
                 THEN /\ Cardinality(by_fp) = 1
                      /\ \A q \in by_fp :
                           q[1] = [fp |-> "Apply", ctor |-> d.target_ty.ctor]
                      /\ by_trait = {}
                 ELSE by_fp = {} /\ by_trait = {}
         /\ \A key \in DOMAIN cib.impls : \A i \in DOMAIN cib.impls[key] :
              \E b \in refs : cib.impls[key][i] = <<b.module_id, b.impl_id>>
         /\ \A key \in DOMAIN cib.impls_by_trait :
              \A i \in DOMAIN cib.impls_by_trait[key] :
                \E b \in refs :
                  cib.impls_by_trait[key][i] = <<b.module_id, b.impl_id>>

\* the index of crate 1 is published, and the crate has a trait impl for a
\* type without a head, an inherent impl for an applied type and an inherent
\* impl for a type without a head
C10_Witness ==
    /\ 1 \in DOMAIN db_impls
    /\ \E a, b, c \in Range(BlockRefs(1)) :
         /\ ~IsInherent(a) /\ ~HasHead(Declared(a).target_ty)
         /\ IsInherent(b) /\ HasHead(Declared(b).target_ty)
         /\ IsInherent(c) /\ ~HasHead(Declared(c).target_ty)

(***************************************************************************)
(* C11: the order of a published index is the pre-order of the module      *)
(* tree: lookup_impl_blocks yields the inherent impl blocks of the type's  *)
(* constructor, and lookup_impl_blocks_for_trait the impl blocks of the    *)
(* trait, a module's own blocks in declaration order before those of its   *)
(* descendants and the subtrees of its children in child order; a type     *)
(* without fingerprint yields nothing; and an index built again for the    *)
(* same crate yields the same sequences as the one it replaces.            *)
(***************************************************************************)
RECURSIVE InherentFor(_, _)
InherentFor(bs, ctor) ==
    IF bs = <<>> THEN <<>>
    ELSE (IF /\ IsInherent(Head(bs))
             /\ HasHead(Declared(Head(bs)).target_ty)
             /\ Declared(Head(bs)).target_ty.ctor = ctor
          THEN <<Head(bs)>> ELSE <<>>) \o InherentFor(Tail(bs), ctor)

RECURSIVE ImplsOfTrait(_, _)
ImplsOfTrait(bs, tr) ==
    IF bs = <<>> THEN <<>>
    ELSE (IF Declared(Head(bs)).target_trait = [some |-> TRUE, val |-> tr]
          THEN <<Head(bs)>> ELSE <<>>) \o ImplsOfTrait(Tail(bs), tr)

C11_PreorderIndexOrder ==
    \A krate \in DOMAIN db_impls :
      /\ \A t \in AppliedTypes :
           lookup_impl_blocks(db_impls[krate], t)
             = InherentFor(BlockRefs(krate), t.ctor)
      /\ \A t \in {Infer(0), Unknown} :
           lookup_impl_blocks(db_impls[krate], t) = <<>>
      /\ \A tr \in Traits :
           lookup_impl_blocks_for_trait(db_impls[krate], tr)
             = ImplsOfTrait(BlockRefs(krate), tr)
      /\ krate \in DOMAIN stale =>
           /\ \A t \in AppliedTypes :
                lookup_impl_blocks(db_impls[krate], t)
                  = lookup_impl_blocks(stale[krate], t)
           /\ \A tr \in Traits :
                lookup_impl_blocks_for_trait(db_impls[krate], tr)
                  = lookup_impl_blocks_for_trait(stale[krate], tr)

\* the index of crate 1 has been dropped and built again; it yields for a
\* type a block of a grandchild module before a block of a later child of
\* the root, and for a trait a block of the root before one of its child
C11_Witness ==
    /\ 1 \in DOMAIN db_impls
    /\ 1 \in DOMAIN stale
    /\ \E t \in AppliedTypes :
         LET bs == lookup_impl_blocks(db_impls[1], t)
         IN \E i, j \in DOMAIN bs :
              /\ i < j
              /\ bs[i].module_id \in Range(children(1, children(1, 0)[1]))
              /\ bs[j].module_id = children(1, 0)[2]
    /\ \E tr \in Traits :
         LET bs == lookup_impl_blocks_for_trait(db_impls[1], tr)
         IN \E i, j \in DOMAIN bs :
              /\ i < j
              /\ bs[i].module_id = 0
              /\ bs[j].module_id \in Range(children(1, 0))

(***************************************************************************)
(* C12: the candidate filter: whatever iterate_method_candidates (and so   *)
(* lookup_method) passes to the callback is a function item (never a       *)
(* constant or a type alias) that declares a self receiver, and, when a    *)
(* name filter is given, bears that name.                                  *)
(***************************************************************************)
AllItems ==
    UNION ({Range(Declared(b).items) :
              b \in UNION {Range(BlockRefs(k)) : k \in Crates}}
           \cup {Range(TraitItems(t)) : t \in Traits})

IsFunction(f) == \E it \in AllItems : it.id = f /\ it.kind = "Method"

C12_CandidateFilter ==
    \A j \in 1..Len(trace) :
      IsCall(trace[j]) =>
        /\ IsFunction(trace[j].f)
        /\ Sig(trace[j].f).has_self_param
        /\ name.some => Sig(trace[j].f).name = name.val

\* a method of a trait has been offered under a name filter, and the trait
\* also declares a function of that name without receiver and an item that
\* is not a function
C12_Witness ==
    /\ name.some
    /\ \E j \in 1..Len(trace), t \in Traits :
         /\ IsCall(trace[j])
         /\ TraitOf(trace[j].f) = t
         /\ \E g \in Range(TraitItems(t)) :
              /\ g.kind = "Method"
              /\ ~Sig(g.id).has_self_param
              /\ Sig(g.id).name = name.val
         /\ \E o \in Range(TraitItems(t)) : o.kind # "Method"

(***************************************************************************)
(* C13: exhaustive enumeration: a search that has ended without the        *)
(* callback accepting anything has returned None and has offered every     *)
(* candidate of every type of the autoderef sequence (each eligible method *)
(* of each indexed inherent impl block, and of each trait in scope the     *)
(* oracle accepts for the type) exactly as often as the source declares    *)
(* it, and nothing else.                                                   *)
(***************************************************************************)
RECURSIVE CallsOf(_)
CallsOf(tr) ==
    IF tr = <<>> THEN <<>>
    ELSE (IF IsCall(Head(tr))
          THEN <<[ty |-> Head(tr).ty, f |-> Head(tr).f]>> ELSE <<>>)
         \o CallsOf(Tail(tr))

Count(q, x) == Cardinality({k \in DOMAIN q : q[k] = x})

Rejected == \A j \in 1..Len(trace) : IsCall(trace[j]) => ~trace[j].ok

C13_ExhaustiveEnumeration ==
    (Finished /\ Rejected) =>
       /\ result = [some |-> FALSE, val |-> <<>>]
       /\ Len(CallsOf(trace)) = Len(ExpectedSeq)
       /\ \A c \in Range(ExpectedSeq) \cup Range(CallsOf(trace)) :
            Count(CallsOf(trace), c) = Count(ExpectedSeq, c)

\* the callback has rejected, for a reference to a type, the trait methods
\* of the reference and the inherent and the trait methods of the type, and
\* the search has returned None
C13_Witness ==
    /\ Finished
    /\ api = "iterate_method_candidates"
    /\ Rejected
    /\ ~result.some
    /\ Len(Chain) >= 2
    /\ TraitSeq(Chain[1], name, scope) # <<>>
    /\ Len(InherentSeq(Chain[2], name)) >= 2
    /\ Len(TraitSeq(Chain[2], name, scope)) >= 2

(***************************************************************************)
(* C14: a type without an owning crate (one that is not applied, one whose *)
(* constructor is no ADT, an ADT without crate) has no inherent            *)
(* candidates: iterate_inherent_methods has no impl block to visit for it  *)
(* and the callback gets no inherent method at it; the trait lookup of the *)
(* step runs all the same, so a search the callback never accepts has      *)
(* offered every trait candidate of such a type.                           *)
(***************************************************************************)
C14_NoOwnerNoInherent ==
    /\ (pc = "inherent" /\ ~Owner(derefed_ty).some) => blocks = <<>>
    /\ \A j \in 1..Len(trace) :
         (IsCall(trace[j]) /\ ~Owner(trace[j].ty).some) => IsTraitFn(trace[j].f)
    /\ (Finished /\ Rejected) =>
         \A k \in DOMAIN Chain :
           ~Owner(Chain[k]).some =>
             \A f \in Range(TraitSeq(Chain[k], name, scope)) :
               Offered(Chain[k], f, Len(trace) + 1)

\* a trait method has been offered at a type without owning crate for which
\* a crate declares an inherent impl block with a method that passes the
\* filter
C14_Witness ==
    \E j \in 1..Len(trace) :
      /\ IsCall(trace[j])
      /\ ~Owner(trace[j].ty).some
      /\ \E k \in Crates : \E b \in Range(BlockRefs(k)) :
           /\ IsInherent(b)
           /\ Declared(b).target_ty = trace[j].ty
           /\ MethodsOf(Declared(b).items, name) # <<>>

(***************************************************************************)
(* C15: a reference type has no fingerprint: for_impl answers None for it, *)
(* so an inherent impl block that targets a reference type is in no entry  *)
(* of the fingerprint map of a published index and lookup_impl_blocks does *)
(* not yield it.                                                           *)
(***************************************************************************)
IsReference(ty) == ty.kind = "Apply" /\ ty.ctor = CtorRef

C15_ReferenceHasNoFingerprint ==
    \A krate \in DOMAIN db_impls :
      \A b \in Range(BlockRefs(krate)) :
        (IsInherent(b) /\ IsReference(Declared(b).target_ty)) =>
           /\ ~for_impl(Declared(b).target_ty).some
           /\ Places(db_impls[krate].impls, <<b.module_id, b.impl_id>>) = {}
           /\ b \notin Range(lookup_impl_blocks(db_impls[krate],
                                                Declared(b).target_ty))

(***************************************************************************)
(* C16: iterate_impl_items passes to the callback every member item, of    *)
(* whatever kind and name and with or without receiver, of the inherent    *)
(* impl blocks the index of the type's owning crate holds for the type, in *)
(* index order and in declaration order within a block; it stops at the    *)
(* first item the callback accepts and returns it; it returns None when    *)
(* the callback accepts nothing or the type has no owning crate.           *)
(***************************************************************************)
RECURSIVE ItemsOfBlocks(_)
ItemsOfBlocks(bs) ==
    IF bs = <<>> THEN <<>>
    ELSE Declared(Head(bs)).items \o ItemsOfBlocks(Tail(bs))

\* the member items iterate_impl_items owes for a type, read off the source
ExpectedItems(ty) ==
    IF Owner(ty).some /\ HasHead(ty)
    THEN ItemsOfBlocks(InherentFor(BlockRefs(Owner(ty).val), ty.ctor))
    ELSE <<>>

C16_ImplItemsEnumeration ==
    LET exp == ExpectedItems(it_self)
        n == Len(it_trace)
    IN /\ n <= Len(exp)
       /\ \A k \in 1..n :
            /\ it_trace[k].f = exp[k].id
            /\ it_trace[k].ok =>
                 /\ k = n
                 /\ it_pc = "done"
                 /\ it_result = [some |-> TRUE, val |-> exp[k]]
       /\ it_result.some => (n > 0 /\ it_trace[n].ok)
       /\ (it_pc = "done" /\ ~it_result.some) => n = Len(exp)

\* the callback has turned down a function without receiver and a constant
\* of the first impl block of the type and accepted an item of a later block
C16_Witness ==
    /\ it_pc = "done"
    /\ it_result.some
    /\ \E i, j \in 1..Len(it_trace) :
         /\ IsFunction(it_trace[i].f)
         /\ ~Sig(it_trace[i].f).has_self_param
         /\ ~IsFunction(it_trace[j].f)
    /\ ExpectedItems(it_self) # <<>>
    /\ it_result.val \notin
         Range(Declared(Head(InherentFor(BlockRefs(Owner(it_self).val),
                                         it_self.ctor))).items)

(***************************************************************************)
(* C17: the shape of the probe's substitution: the trait reference built   *)
(* for a probe has as many arguments as the trait has generic parameters,  *)
(* inherited ones included; the first is exactly the type the probe is     *)
(* about; the others are inference placeholders, no two of them the same.  *)
(***************************************************************************)
C17_ProbeSubstsShape ==
    probe_ref.some =>
      LET substs == probe_ref.val.substs
          n == Len(params_including_parent(probe_ref.val.trait_))
      IN /\ Len(substs) = n
         /\ \E i \in 1..Len(trace) :
              /\ IsProbe(trace[i])
              /\ \A j \in (i + 1)..Len(trace) : ~IsProbe(trace[j])
              /\ trace[i].trait = probe_ref.val.trait_
              /\ substs[1] = trace[i].ty
         /\ \A k \in 2..n : substs[k].kind = "Infer"
         /\ \A a, b \in 2..n : a # b => substs[a] # substs[b]

\* a probe has been built for a reference type and a trait with two
\* parameters besides Self
C17_Witness ==
    /\ probe_ref.some
    /\ Len(params_including_parent(probe_ref.val.trait_)) >= 3
    /\ IsReference(probe_ref.val.substs[1])

(***************************************************************************)
(* C19: the placeholders of a probe are fresh: in the trait reference      *)
(* built for a probe no placeholder that fills a parameter other than Self *)
(* is an inference variable that occurs in the self type, the self type    *)
(* being an inference variable itself included.                            *)
(***************************************************************************)
RECURSIVE InferVars(_)
InferVars(ty) ==
    IF ty.kind = "Infer" THEN {ty.var}
    ELSE IF ty.kind = "Apply"
    THEN UNION {InferVars(ty.args[k]) : k \in DOMAIN ty.args}
    ELSE {}

C19_ProbePlaceholdersFresh ==
    probe_ref.some =>
      \A k \in 2..Len(probe_ref.val.substs) :
        probe_ref.val.substs[k].kind = "Infer" =>
          probe_ref.val.substs[k].var \notin InferVars(probe_ref.val.substs[1])

(***************************************************************************)
(* C20: the order within one autoderef step: the calls of the callback at  *)
(* a type T are, in this order, the eligible methods of T's inherent impl  *)
(* blocks (blocks in index order, items in declaration order) and then the *)
(* eligible methods of the traits in scope that T implements (traits in    *)
(* scope order, items in declaration order): a beginning of that sequence  *)
(* while the step runs or when a call was accepted, the whole of it once   *)
(* the step is over; and a callback that accepts at once gets, at the type *)
(* it stops at, the first element of the sequence.                         *)
(***************************************************************************)
RECURSIVE CallsAt(_, _)
CallsAt(tr, ty) ==
    IF tr = <<>> THEN <<>>
    ELSE (IF IsCall(Head(tr)) /\ Head(tr).ty = ty
          THEN <<[ty |-> ty, f |-> Head(tr).f]>> ELSE <<>>)
         \o CallsAt(Tail(tr), ty)

C20_TieBreakOrder ==
    \A k \in DOMAIN Chain :
      LET got == CallsAt(trace, Chain[k])
          exp == StepSeq(Chain[k], name, scope)
      IN /\ Len(got) <= Len(exp)
         /\ \A i \in 1..Len(got) : i <= Len(exp) /\ got[i] = exp[i]
         /\ di > k => got = exp
         /\ (Looked /\ result.some /\ result.val.ty = Chain[k]) =>
              (exp # <<>> /\ result.val = exp[1])

\* a step is over in which the callback has turned down two inherent
\* methods of the type and then methods of two traits in scope
C20_Witness ==
    \E k \in DOMAIN Chain :
      /\ di > k
      /\ Len(InherentSeq(Chain[k], name)) >= 2
      /\ \E s, t \in Range(scope) :
           /\ s # t
           /\ \E f, g \in Range(TraitSeq(Chain[k], name, scope)) :
                TraitOf(f) = s /\ TraitOf(g) = t
      /\ Len(CallsAt(trace, Chain[k])) >= 4

(***************************************************************************)
(* C18: reads without locks: while a search and a call of                  *)
(* iterate_impl_items run with their steps interleaved in any order, each  *)
(* makes the callback invocations and returns the result that its own      *)
(* inputs, the source and the oracle determine (what it does when it runs  *)
(* alone), and no step of either changes a published index: an index, once *)
(* published, stays as it is.                                              *)
(***************************************************************************)
SearchAsAlone ==
    LET calls == CallsOf(trace)
    IN /\ Len(calls) <= Len(ExpectedSeq)
       /\ \A i \in 1..Len(calls) : i <= Len(ExpectedSeq) /\ calls[i] = ExpectedSeq[i]
       /\ Finished =>
            IF Rejected
            THEN result = [some |-> FALSE, val |-> <<>>] /\ calls = ExpectedSeq
            ELSE result = [some |-> TRUE, val |-> Last(calls)]
       /\ Looked => Len(calls) <= 1

ItemsAsAlone ==
    LET exp == ExpectedItems(it_self)
        n == Len(it_trace)
    IN /\ n <= Len(exp)
       /\ \A k \in 1..n : k <= Len(exp) /\ it_trace[k].f = exp[k].id
       /\ it_pc = "done" =>
            IF \E k \in 1..n : it_trace[k].ok
            THEN it_result = [some |-> TRUE, val |-> exp[n]]
            ELSE it_result = [some |-> FALSE, val |-> <<>>] /\ n = Len(exp)

IndexKept ==
    /\ \A k \in DOMAIN db_impls :
         k \in DOMAIN db_impls' /\ db_impls'[k] = db_impls[k]
    /\ (search_vars' # search_vars \/ items_vars' # items_vars) =>
         db_impls' = db_impls

C18_ConcurrentReads == [](SearchAsAlone /\ ItemsAsAlone) /\ [][IndexKept]_vars

\* a search and a call of iterate_impl_items are both under way on the
\* index of the same crate, each with callback invocations behind it
C18_Witness ==
    /\ pc \in {"inherent", "traits"}
    /\ it_pc = "items"
    /\ CallsOf(trace) # <<>>
    /\ it_trace # <<>>
    /\ Owner(derefed_ty).some
    /\ Owner(derefed_ty) = Owner(it_self)
    /\ blocks # <<>>
    /\ it_blocks # <<>>

(***************************************************************************)
(* C21: lazy probing: the oracle is asked about (T, t) only when t         *)
(* declares a function with a receiver that passes the name filter, and    *)
(* only right before the first such function would be offered: a query the *)
(* oracle affirms is followed at once by the call with the first eligible  *)
(* method of t at T, one it denies by no call for t at T; a trait in scope *)
(* without eligible method is never asked about; and every trait method    *)
(* offered at T comes after the affirmed query about its trait, with       *)
(* nothing but calls for that trait at T in between.                       *)
(***************************************************************************)
C21_LazyProbing ==
    /\ \A i \in 1..Len(trace) :
         IsProbe(trace[i]) =>
           LET ms == MethodsOf(TraitItems(trace[i].trait), name)
           IN /\ ms # <<>>
              /\ trace[i].ok =>
                   /\ i < Len(trace)
                   /\ IsCall(trace[i + 1])
                   /\ trace[i + 1].ty = trace[i].ty
                   /\ trace[i + 1].f = ms[1]
              /\ ~trace[i].ok =>
                   \A j \in 1..Len(trace) :
                     ~(/\ IsCall(trace[j])
                       /\ trace[j].ty = trace[i].ty
                       /\ TraitOf(trace[j].f) = trace[i].trait)
    /\ \A j \in 1..Len(trace) :
         (IsCall(trace[j]) /\ IsTraitFn(trace[j].f)) =>
            \E i \in 1..(j - 1) :
              /\ IsProbe(trace[i])
              /\ trace[i].ok
              /\ trace[i].ty = trace[j].ty
              /\ trace[i].trait = TraitOf(trace[j].f)
              /\ \A m \in (i + 1)..(j - 1) :
                   /\ IsCall(trace[m])
                   /\ trace[m].ty = trace[j].ty
                   /\ TraitOf(trace[m].f) = trace[i].trait

\* under a name filter the search has passed a trait in scope that declares
\* no method of that name without a query, and has then asked about the next
\* trait, whose eligible method is not its first item
C21_Witness ==
    /\ pc = "traits"
    /\ name.some
    /\ Len(scope) >= 2
    /\ ti = 2
    /\ trace # <<>>
    /\ MethodsOf(TraitItems(scope[1]), name) = <<>>
    /\ ~\E i \in 1..Len(trace) :
          IsProbe(trace[i]) /\ trace[i].trait = scope[1]
    /\ IsCall(Last(trace))
    /\ TraitOf(Last(trace).f) = scope[2]
    /\ Method(Last(trace).f) # TraitItems(scope[2])[1]

(***************************************************************************)
(* C22: termination: a search that has been started returns; it returns a  *)
(* value only as the callback's answer to its last call, and None only     *)
(* when the autoderef sequence is exhausted; and every step of a running   *)
(* search moves its position forward (autoderef step, then inherent before *)
(* trait lookup, then impl block, trait and item), so that no autoderef    *)
(* step is visited twice and no trait is walked again.                     *)
(***************************************************************************)
Running == pc \in {"deref", "inherent", "traits"}

Phase(p) == CASE p = "deref" -> 0
              [] p = "inherent" -> 1
              [] p = "traits" -> 2
              [] OTHER -> 3

Pos == <<di, Phase(pc), 0 - Len(blocks), ti, ii>>

LexLess(a, b) ==
    \E k \in 1..Len(a) : a[k] < b[k] /\ \A j \in 1..(k - 1) : a[j] = b[j]

Advances == Running => LexLess(Pos, Pos')

ReturnsProperly ==
    Finished =>
      IF result.some
      THEN trace # <<>> /\ IsCall(Last(trace)) /\ Last(trace).ok
      ELSE di = Len(Chain) + 1

C22_Termination ==
    /\ Running ~> Finished
    /\ []ReturnsProperly
    /\ [][Advances]_vars

\* a search over a reference to a reference has returned None after three
\* autoderef steps, the callback having turned down inherent and trait
\* candidates at two of them
C22_Witness ==
    /\ Finished
    /\ ~result.some
    /\ Len(Chain) >= 3
    /\ di = Len(Chain) + 1
    /\ \E j, k \in DOMAIN Chain :
         /\ j < k
         /\ CallsAt(trace, Chain[j]) # <<>>
         /\ Len(CallsAt(trace, Chain[k])) >= 3

(***************************************************************************)
(* C23: binding power decides the grouping: expr_bp takes a binary         *)
(* operator into its loop exactly when the operator's power is at least    *)
(* its bp, and leaves the loop without consuming anything at the first     *)
(* token of lower power (a token that is no operator, like `;`, has power  *)
(* 0, so a statement is parsed up to its `;`). Hence for two operators in  *)
(* a row, op1 b op2: if op2 binds tighter, b is the left operand of op2's  *)
(* BIN_EXPR, which lies in the right operand of op1's; if op2 binds        *)
(* looser, b is the whole right operand of op1's BIN_EXPR, which lies in   *)
(* the left operand of op2's; and in `a op1 b op2 c` the other BIN_EXPR is *)
(* that operand itself. `*` binds tighter than `+`, and `+` than `==`.     *)
(***************************************************************************)
ParseDone == p_frames = <<>>

BindingPower(kind) ==
    CASE kind \in {"EQ", "PLUSEQ", "MINUSEQ"} -> 1
      [] kind = "DOTDOT" -> 2
      [] kind = "PIPEPIPE" -> 3
      [] kind = "AMPERSANDAMPERSAND" -> 4
      [] kind \in {"EQEQ", "NEQ", "LTEQ", "GTEQ"} -> 5
      [] kind \in {"PLUS", "MINUS"} -> 6
      [] kind \in {"STAR", "SLASH"} -> 7
      [] OTHER -> 0

RECURSIVE Sub(_)
\* a node and the nodes below it
Sub(t) == {t} \cup UNION {Sub(t.ch[i]) : i \in DOMAIN t.ch}

Bins == IF p_out.some
        THEN {n \in Sub(p_out.val) : n.k = "BIN_EXPR"}
        ELSE {}
OpOf(n) == n.ch[2]
PowerOfBin(n) == BindingPower(OpOf(n).k)

\* the operator of n2 is the next one after that of n1
InARow(n1, n2) ==
    /\ OpOf(n1).at < OpOf(n2).at
    /\ \A n3 \in Bins :
         ~(OpOf(n1).at < OpOf(n3).at /\ OpOf(n3).at < OpOf(n2).at)

\* the input ends with an operand and the `;`
EndsWithOperand ==
    Len(p_tokens) >= 2 /\ p_tokens[Len(p_tokens) - 1] \in Atoms

Grouping ==
    (ParseDone /\ EndsWithOperand) =>
       /\ p_out.some
       /\ p_out.val.at = 1
       /\ p_pos = Len(p_tokens)
       /\ \A n1, n2 \in Bins :
            InARow(n1, n2) =>
              LET b == OpOf(n2).at - 1
                  operand == [k |-> p_tokens[b], at |-> b, ch |-> <<>>]
                  whole == Cardinality(Bins) = 2 /\ p_tokens[1] \in Atoms
              IN /\ Len(n1.ch) = 3
                 /\ Len(n2.ch) = 3
                 /\ PowerOfBin(n2) > PowerOfBin(n1) =>
                      /\ n2.ch[1] = operand
                      /\ n2 \in Sub(n1.ch[3])
                      /\ whole => (n1.ch[3] = n2 /\ p_out.val = n1)
                 /\ PowerOfBin(n2) < PowerOfBin(n1) =>
                      /\ n1.ch[3] = operand
                      /\ n1 \in Sub(n2.ch[1])
                      /\ whole => (n2.ch[1] = n1 /\ p_out.val = n2)

\* the operator that starts at token q, if one does
OperatorAt(q) ==
    LET two == {c \in {"PLUSEQ", "MINUSEQ", "PIPEPIPE", "AMPERSANDAMPERSAND",
                       "LTEQ", "GTEQ"} :
                  /\ q < Len(p_tokens)
                  /\ <<p_tokens[q], p_tokens[q + 1]>> = Lexed(c)}
    IN IF two # {} THEN CHOOSE c \in two : TRUE
       ELSE IF q <= Len(p_tokens) THEN p_tokens[q]
       ELSE "EOF"

\* a step of expr_bp's loop
ConsumeRule ==
    (p_frames # <<>> /\ PTop.fn = "expr_bp" /\ PTop.at = "loop") =>
       LET kind == OperatorAt(p_pos)
       IN IF BindingPower(kind) >= PTop.bp
          THEN /\ p_pos' = p_pos + Len(Lexed(kind))
               /\ Len(p_frames') > Len(p_frames)
               /\ p_frames'[Len(p_frames)] = PTop
               /\ p_frames'[Len(p_frames) + 1].op =
                    [k |-> kind, at |-> p_pos, ch |-> <<>>]
          ELSE /\ p_pos' = p_pos
               /\ p_frames' = PRest
               /\ p_out' = PTop.lhs

C23_BindingPowerGrouping ==
    /\ [](/\ Grouping
          /\ BindingPower("STAR") > BindingPower("PLUS")
          /\ BindingPower("PLUS") > BindingPower("EQEQ"))
    /\ [][ConsumeRule]_vars

\* a statement is parsed in which an operator is followed by a tighter one
\* and that one by a looser one, as in `a + b * c == d;`
C23_Witness ==
    /\ ParseDone
    /\ EndsWithOperand
    /\ p_tokens[1] \in Atoms
    /\ \E n1, n2, n3 \in Bins :
         /\ InARow(n1, n2)
         /\ InARow(n2, n3)
         /\ PowerOfBin(n2) > PowerOfBin(n1)
         /\ PowerOfBin(n3) < PowerOfBin(n1)
         /\ p_out.val = n3

(***************************************************************************)
(* C24: the accessors of an impl block's target agree.  With exactly one   *)
(* type-reference child, target_type is that child and target_trait is     *)
(* none; with two or more, target_trait is the first and target_type the   *)
(* second; with none, both are none.  So target_trait is present only when *)
(* target_type is, and the two are never the same child.                   *)
(***************************************************************************)
TypeRefPlaces == {i \in DOMAIN impl_node : impl_node[i] \in TypeRefKinds}

\* the n-th type-reference child, counted from 1
TypeRefChild(n) ==
    LET i == CHOOSE j \in TypeRefPlaces :
                 Cardinality({h \in TypeRefPlaces : h < j}) = n - 1
    IN [k |-> impl_node[i], at |-> i]

C24_TargetAccessors ==
    LET n == Cardinality(TypeRefPlaces)
    IN /\ asked_type =>
            got_type = (IF n = 0 THEN None
                        ELSE IF n = 1 THEN Some(TypeRefChild(1))
                        ELSE Some(TypeRefChild(2)))
       /\ asked_trait =>
            got_trait = (IF n >= 2 THEN Some(TypeRefChild(1)) ELSE None)
       /\ (asked_type /\ asked_trait) =>
            /\ got_trait.some => got_type.some
            /\ got_trait.some => got_trait.val # got_type.val

\* both accessors were asked about `impl<T> Tr for &S {}` and about `impl S {}`
C24_Witness ==
    /\ asked_type
    /\ asked_trait
    /\ \/ /\ Cardinality(TypeRefPlaces) >= 2
          /\ \E i \in DOMAIN impl_node : impl_node[i] \notin TypeRefKinds
          /\ got_trait.some
          /\ got_type.some
       \/ /\ Cardinality(TypeRefPlaces) = 1
          /\ got_type.some
          /\ ~got_trait.some

====
